---- MODULE Spec2Model ----
(***************************************************************************)
(* A model of the geometry-aware columnar substrate of sedona-db:          *)
(*   - the WKB fast-path header reader (sedona-geometry/src/wkb_header.rs) *)
(*   - the ST_StartPoint / ST_EndPoint byte-splicing kernel                *)
(*     (sedona-functions/src/st_start_point.rs)                            *)
(*   - the ST_Buffer kernels and their style-string parser                 *)
(*     (sedona-geos/src/st_buffer.rs)                                      *)
(*   - the schema inference, the file source and the opener of the         *)
(*     file-format adapter (sedona-datasource/src/format.rs)               *)
(*   - the in-memory build-side batch stream of the spatial join           *)
(*     (sedona-spatial-join/src/collect/build_side_batch_stream/in_mem.rs) *)
(* Byte buffers are sequences of naturals 0..255.  A Rust Result is a      *)
(* record [tag, val] with tag "Ok" or "Err"; a Rust panic (a slice index   *)
(* out of range) is the third tag "Panic".  An f64 is its 64-bit pattern,  *)
(* written as the 8 bytes most significant first.                          *)
(***************************************************************************)
EXTENDS Integers, Sequences, FiniteSets, TLC

(***************************************************************************)
(* Bounds of the model.                                                    *)
(***************************************************************************)
\* largest point count of a generated LineString or polygon ring
MaxPoints == 2
\* largest ring count of a generated Polygon
MaxRings == 2
\* largest child count of a generated Multi* / GeometryCollection
MaxKids == 2
\* longest arbitrary byte slice over RawAlphabet
MaxRawLen == 6
\* largest number of rows of an endpoint-kernel batch
MaxRows == 2
\* longest argument list given to an ST_Buffer kernel
MaxArgs == 4
\* largest number of tokens of a generated style string
MaxTokens == 2
\* largest number of listed objects, largest meta_fetch_concurrency
MaxObjects == 2
MaxConcurrency == 2

(***************************************************************************)
(* Program constants.                                                      *)
(***************************************************************************)
\* const SRID_FLAG_BIT: u32 = 0x20000000
SRID_FLAG_BIT == 536870912

(***************************************************************************)
(* Results and options.                                                    *)
(***************************************************************************)
Ok(v) == [tag |-> "Ok", val |-> v]
Err(m) == [tag |-> "Err", val |-> m]
Panic == [tag |-> "Panic", val |-> "index out of range"]
None == <<>>
Some(v) == <<v>>

(***************************************************************************)
(* Slices.  &buf[a..b] panics unless a <= b <= len; &buf[a..] is           *)
(* &buf[a..len].  Offsets are 0-based as in the source.                    *)
(***************************************************************************)
SliceOk(buf, a, b) == a <= b /\ b <= Len(buf)
Slice(buf, a, b) == SubSeq(buf, a + 1, b)
SliceFrom(buf, a) == SubSeq(buf, a + 1, Len(buf))
Reverse(s) == [k \in 1..Len(s) |-> s[Len(s) + 1 - k]]

(***************************************************************************)
(* f64 values as bit patterns (8 bytes, most significant first).           *)
(***************************************************************************)
\* f64::NAN = 0x7ff8000000000000
F64_NAN == <<127, 248, 0, 0, 0, 0, 0, 0>>
\* x.is_nan(): exponent all ones and a nonzero mantissa
is_nan(bits) ==
    /\ (bits[1] % 128) * 16 + (bits[2] \div 16) = 2047
    /\ \/ bits[2] % 16 # 0
       \/ \E k \in 3..8 : bits[k] # 0
\* f64::from_be_bytes / f64::from_le_bytes
f64_from_be_bytes(b) == b
f64_from_le_bytes(b) == Reverse(b)
\* u32::from_be_bytes / u32::from_le_bytes
u32_from_be_bytes(b) == ((b[1] * 256 + b[2]) * 256 + b[3]) * 256 + b[4]
u32_from_le_bytes(b) == ((b[4] * 256 + b[3]) * 256 + b[2]) * 256 + b[1]

(***************************************************************************)
(* GeometryTypeId::try_from_wkb_id (sedona-geometry/src/types.rs): the     *)
(* seven-code taxonomy; any other code is an invalid-WKB error.            *)
(***************************************************************************)
GeometryTypeName ==
    <<"Point", "LineString", "Polygon", "MultiPoint", "MultiLineString",
      "MultiPolygon", "GeometryCollection">>
try_from_wkb_id(code) ==
    IF code \in 1..7 THEN Ok(GeometryTypeName[code])
    ELSE Err("Invalid WKB: unexpected geometry type code")

(***************************************************************************)
(* wkb_header.rs: the free functions.                                      *)
(***************************************************************************)
read_u32(buf, byte_order) ==
    IF Len(buf) < 4 THEN Err("Invalid WKB: buffer too small -> read_u32")
    ELSE IF byte_order = 0 THEN Ok(u32_from_be_bytes(buf))
    ELSE IF byte_order = 1 THEN Ok(u32_from_le_bytes(buf))
    ELSE Err("Unexpected byte order")

parse_coord(buf, byte_order) ==
    IF Len(buf) < 8 THEN Err("Invalid WKB: buffer too small -> parse_coord")
    ELSE IF byte_order = 0 THEN Ok(f64_from_be_bytes(SubSeq(buf, 1, 8)))
    ELSE IF byte_order = 1 THEN Ok(f64_from_le_bytes(SubSeq(buf, 1, 8)))
    ELSE Err("Unexpected byte order")

\* a mutation: the Z and M digits exchanged
DimensionsOfCode_SwapZM(code) ==
    LET q == code \div 1000 IN
    IF q = 0 THEN Ok("Xy")
    ELSE IF q = 1 THEN Ok("Xym")
    ELSE IF q = 2 THEN Ok("Xyz")
    ELSE IF q = 3 THEN Ok("Xyzm")
    ELSE Err("Unexpected code")
\* match code / 1000 { 0 => Xy, 1 => Xyz, 2 => Xym, 3 => Xyzm, _ => Err }
DimensionsOfCode(code) ==
    LET q == code \div 1000 IN
    IF q = 0 THEN Ok("Xy")
    ELSE IF q = 1 THEN Ok("Xyz")
    ELSE IF q = 2 THEN Ok("Xym")
    ELSE IF q = 3 THEN Ok("Xyzm")
    ELSE Err("Unexpected code")

\* a mutation: the length check off by one
parse_dimensions_OffByOne(buf) ==
    IF Len(buf) <= 9 THEN Err("Invalid WKB: buffer too small -> parse_dimensions")
    ELSE
      LET byte_order == buf[1]
          code == read_u32(Slice(buf, 1, 5), byte_order)
      IN IF code.tag # "Ok" THEN code ELSE DimensionsOfCode(code.val)
parse_dimensions(buf) ==
    IF Len(buf) < 9 THEN Err("Invalid WKB: buffer too small -> parse_dimensions")
    ELSE
      LET byte_order == buf[1]
          code == read_u32(Slice(buf, 1, 5), byte_order)
      IN IF code.tag # "Ok" THEN code ELSE DimensionsOfCode(code.val)

\* geometry_type & SRID_FLAG_BIT != 0
HasSridFlag(geometry_type) == (geometry_type \div SRID_FLAG_BIT) % 2 = 1

\* first_xy, lines 275-284: the x and y of the coordinate at offset i
first_xy_at(buf, i, byte_order) ==
    IF Len(buf) < i + 8 THEN Err("Invalid WKB: buffer too small -> first_xy4")
    ELSE
      LET x == parse_coord(SliceFrom(buf, i), byte_order) IN
      IF x.tag # "Ok" THEN x
      ELSE
        LET y == parse_coord(SliceFrom(buf, i + 8), byte_order) IN
        IF y.tag # "Ok" THEN y ELSE Ok(<<x.val, y.val>>)

\* a mutation: ring 0's point count is not skipped
first_xy_polygon_NoRingSkip(buf, i, byte_order) ==
    first_xy_at(buf, i, byte_order)
\* first_xy, lines 254-272: a POLYGON's ring 0 point count, read at offset i
first_xy_polygon(buf, i, byte_order) ==
    IF Len(buf) < i + 4
    THEN Err("Invalid WKB: buffer too small -> polygon first ring size")
    ELSE
      LET ring0_num_points == read_u32(Slice(buf, i, i + 4), byte_order) IN
      IF ring0_num_points.tag # "Ok" THEN ring0_num_points
      ELSE IF ring0_num_points.val = 0 THEN Ok(<<F64_NAN, F64_NAN>>)
      ELSE first_xy_at(buf, i + 4, byte_order)

\* Given a point, linestring, or polygon, return the first xy coordinate;
\* (NaN, NaN) if the geometry is empty
first_xy(buf) ==
    IF Len(buf) < 5 THEN Err("Invalid WKB: buffer too small -> first_xy")
    ELSE
      LET byte_order == buf[1]
          geometry_type == read_u32(Slice(buf, 1, 5), byte_order)
      IN
      IF geometry_type.tag # "Ok" THEN geometry_type
      ELSE
        LET geometry_type_id == try_from_wkb_id(geometry_type.val % 8)
            i == IF HasSridFlag(geometry_type.val) THEN 9 ELSE 5
        IN
        IF geometry_type_id.tag # "Ok" THEN geometry_type_id
        ELSE IF geometry_type_id.val \in {"LineString", "Polygon"}
        THEN
          IF Len(buf) < i + 4
          THEN Err("Invalid WKB: buffer too small -> first_xy3")
          ELSE
            LET size == read_u32(Slice(buf, i, i + 4), byte_order) IN
            IF size.tag # "Ok" THEN size
            ELSE IF size.val = 0 THEN Ok(<<F64_NAN, F64_NAN>>)
            ELSE IF geometry_type_id.val = "Polygon"
            THEN first_xy_polygon(buf, i + 4, byte_order)
            ELSE first_xy_at(buf, i + 4, byte_order)
        ELSE first_xy_at(buf, i, byte_order)

\* first_geom_idx, lines 190-193: the offset of the first nested geometry
NestedOffset(geometry_type) ==
    IF HasSridFlag(geometry_type) THEN 9 + 4 ELSE 9

\* For MULTIPOINT, MULTILINESTRING, MULTIPOLYGON or GEOMETRYCOLLECTION the
\* index of the first nested non-collection geometry, or None; for POINT,
\* LINESTRING, POLYGON Some(0).  An error of the recursive call is turned
\* into Ok(None); a panic of the recursive call unwinds through the caller.
RECURSIVE first_geom_idx(_)
first_geom_idx(buf) ==
    IF Len(buf) < 5
    THEN Err("Invalid WKB: buffer too small -> first_geom_idx")
    ELSE
      LET byte_order == buf[1]
          geometry_type == read_u32(Slice(buf, 1, 5), byte_order)
      IN
      IF geometry_type.tag # "Ok" THEN geometry_type
      ELSE
        LET geometry_type_id == try_from_wkb_id(geometry_type.val % 8) IN
        IF geometry_type_id.tag # "Ok" THEN geometry_type_id
        ELSE IF geometry_type_id.val \in {"Point", "LineString", "Polygon"}
        THEN Ok(Some(0))
        ELSE IF Len(buf) < 9 THEN Err("Invalid WKB: buffer too small")
        ELSE
          LET num_geometries == read_u32(Slice(buf, 5, 9), byte_order) IN
          IF num_geometries.tag # "Ok" THEN num_geometries
          ELSE IF num_geometries.val = 0 THEN Ok(None)
          ELSE
            LET i == NestedOffset(geometry_type.val) IN
            IF ~SliceOk(buf, i, Len(buf)) THEN Panic
            ELSE
              LET off == first_geom_idx(SliceFrom(buf, i)) IN
              IF off.tag = "Panic" THEN Panic
              ELSE IF off.tag = "Ok" /\ off.val # None
              THEN Ok(Some(i + off.val[1]))
              ELSE Ok(None)

(***************************************************************************)
(* WkbHeader: the cached fields, try_new and the accessors.                *)
(***************************************************************************)
\* try_new, lines 59-65: the SRID and the cursor after it
ReadSrid(buf, geometry_type, byte_order) ==
    IF HasSridFlag(geometry_type)
    THEN IF ~SliceOk(buf, 5, 9) THEN Panic
         ELSE LET srid == read_u32(Slice(buf, 5, 9), byte_order) IN
              IF srid.tag # "Ok" THEN srid
              ELSE Ok([srid |-> srid.val, i |-> 9])
    ELSE Ok([srid |-> 0, i |-> 5])

\* a mutation: the count is always read as little-endian
ReadSize_LittleEndianOnly(buf, geometry_type_id, i, byte_order) ==
    IF geometry_type_id = "Point" THEN Ok(1)
    ELSE IF ~SliceOk(buf, i, i + 4) THEN Panic
    ELSE read_u32(Slice(buf, i, i + 4), 1)
\* try_new, lines 67-72: the count, or the dummy 1 of a point
ReadSize(buf, geometry_type_id, i, byte_order) ==
    IF geometry_type_id = "Point" THEN Ok(1)
    ELSE IF ~SliceOk(buf, i, i + 4) THEN Panic
    ELSE read_u32(Slice(buf, i, i + 4), byte_order)

\* try_new, lines 74-87: first_geom_dimensions and first_xy
ReadFirstGeom(buf) ==
    LET idx == first_geom_idx(buf) IN
    IF idx.tag # "Ok" THEN idx
    ELSE IF idx.val # None
    THEN
      LET i == idx.val[1]
          dims == parse_dimensions(SliceFrom(buf, i))
      IN
      IF dims.tag # "Ok" THEN dims
      ELSE
        LET xy == first_xy(SliceFrom(buf, i)) IN
        IF xy.tag # "Ok" THEN xy
        ELSE Ok([first_geom_dimensions |-> Some(dims.val), first_xy |-> xy.val])
    ELSE Ok([first_geom_dimensions |-> None, first_xy |-> <<F64_NAN, F64_NAN>>])

\* WkbHeader::try_new
try_new(buf) ==
    IF Len(buf) < 5 THEN Err("Invalid WKB: buffer too small -> try_new")
    ELSE
      LET byte_order == buf[1]
          geometry_type == read_u32(Slice(buf, 1, 5), byte_order)
      IN
      IF geometry_type.tag # "Ok" THEN geometry_type
      ELSE
        LET geometry_type_id == try_from_wkb_id(geometry_type.val % 8) IN
        IF geometry_type_id.tag # "Ok" THEN geometry_type_id
        ELSE
          LET s == ReadSrid(buf, geometry_type.val, byte_order) IN
          IF s.tag # "Ok" THEN s
          ELSE
            LET size == ReadSize(buf, geometry_type_id.val, s.val.i, byte_order) IN
            IF size.tag # "Ok" THEN size
            ELSE
              LET f == ReadFirstGeom(buf) IN
              IF f.tag # "Ok" THEN f
              ELSE Ok([geometry_type |-> geometry_type.val,
                       size |-> size.val,
                       srid |-> s.val.srid,
                       first_xy |-> f.val.first_xy,
                       first_geom_dimensions |-> f.val.first_geom_dimensions])

\* WkbHeader::geometry_type_id
WkbHeader_geometry_type_id(self) == try_from_wkb_id(self.geometry_type % 8)
\* WkbHeader::size
WkbHeader_size(self) == self.size
\* WkbHeader::srid
WkbHeader_srid(self) == self.srid
\* WkbHeader::first_xy
WkbHeader_first_xy(self) == self.first_xy
\* a mutation: the dimension inferred from the first nested geometry
WkbHeader_dimensions_Inferred(self) ==
    IF self.first_geom_dimensions # None THEN Ok(self.first_geom_dimensions[1])
    ELSE DimensionsOfCode(self.geometry_type)
\* WkbHeader::dimensions
WkbHeader_dimensions(self) == DimensionsOfCode(self.geometry_type)
\* WkbHeader::first_geom_dimensions
WkbHeader_first_geom_dimensions(self) == self.first_geom_dimensions

(***************************************************************************)
(* Generated inputs.  A geometry is described structurally and written as  *)
(* WKB the way the tests' make_wkb and the fixtures do:                    *)
(*   t     type 1..7            d     dimension 0..3 (XY, XYZ, XYM, XYZM)  *)
(*   bo    byte order 0/1       srid  None, or Some(v) for EWKB            *)
(*   n     point count of a LineString; 1/0 for POINT / POINT EMPTY        *)
(*   c0    index of the geometry's first coordinate tuple                  *)
(*   rings point count of each ring of a Polygon                           *)
(*   kids  children of a Multi* / GeometryCollection                       *)
(***************************************************************************)
\* The two high bytes of the f64 patterns of 1.0, 2.0, ..., 14.0 (the other
\* six bytes are zero): 1.0 = 0x3ff0..., 2.0 = 0x4000..., 3.0 = 0x4008...
NumHigh ==
    <<  <<63, 240>>, <<64, 0>>, <<64, 8>>, <<64, 16>>, <<64, 20>>,
        <<64, 24>>, <<64, 28>>, <<64, 32>>, <<64, 34>>, <<64, 36>>,
        <<64, 38>>, <<64, 40>>, <<64, 42>>, <<64, 44>>  >>
Num(v) == NumHigh[v] \o <<0, 0, 0, 0, 0, 0>>

\* the ordinates of coordinate tuple k: (2k-1, 2k) then z and/or m, as in
\* LINESTRING ZM (1 2 3 4, 3 4 5 6, 5 6 7 8)
NumOrdinates(d) == IF d = 0 THEN 2 ELSE IF d = 3 THEN 4 ELSE 3
CoordTuple(d, k) == [j \in 1..NumOrdinates(d) |-> Num(2 * k - 2 + j)]
EmptyTuple(d) == [j \in 1..NumOrdinates(d) |-> F64_NAN]

RECURSIVE Concat(_)
Concat(ss) == IF ss = <<>> THEN <<>> ELSE Head(ss) \o Concat(Tail(ss))

\* u32::to_be_bytes / u32::to_le_bytes
U32Bytes(v, bo) ==
    LET be == << (v \div 16777216) % 256, (v \div 65536) % 256,
                 (v \div 256) % 256, v % 256 >>
    IN IF bo = 1 THEN Reverse(be) ELSE be
F64Bytes(bits, bo) == IF bo = 1 THEN Reverse(bits) ELSE bits
TupleBytes(tuple, bo) == Concat([j \in 1..Len(tuple) |-> F64Bytes(tuple[j], bo)])
\* coordinate tuples c, c + 1, ..., c + n - 1
PointsBytes(d, c, n, bo) ==
    Concat([k \in 1..n |-> TupleBytes(CoordTuple(d, c + k - 1), bo)])

Geom(t, d, bo, srid, n, c0, rings, kids) ==
    [t |-> t, d |-> d, bo |-> bo, srid |-> srid, n |-> n, c0 |-> c0,
     rings |-> rings, kids |-> kids]
NoGeom == Geom(0, 0, 0, None, 0, 0, <<>>, <<>>)

TypeCode(g) ==
    g.d * 1000 + g.t + (IF g.srid # None THEN SRID_FLAG_BIT ELSE 0)

RECURSIVE make_wkb(_)
make_wkb(g) ==
    <<g.bo>> \o U32Bytes(TypeCode(g), g.bo)
    \o (IF g.srid # None THEN U32Bytes(g.srid[1], g.bo) ELSE <<>>)
    \o (IF g.t = 1
        THEN IF g.n = 0 THEN TupleBytes(EmptyTuple(g.d), g.bo)
             ELSE TupleBytes(CoordTuple(g.d, g.c0), g.bo)
        ELSE IF g.t = 2
        THEN U32Bytes(g.n, g.bo) \o PointsBytes(g.d, g.c0, g.n, g.bo)
        ELSE IF g.t = 3
        THEN U32Bytes(Len(g.rings), g.bo)
             \o Concat([r \in 1..Len(g.rings) |->
                   U32Bytes(g.rings[r], g.bo)
                   \o PointsBytes(g.d, g.c0 + r - 1, g.rings[r], g.bo)])
        ELSE U32Bytes(Len(g.kids), g.bo)
             \o Concat([k \in 1..Len(g.kids) |-> make_wkb(g.kids[k])]))

\* MULTIPOINT_WITH_INFERRED_Z_DIMENSION_WKB
MULTIPOINT_WITH_INFERRED_Z_DIMENSION_WKB ==
    <<1,  4, 0, 0, 0,  1, 0, 0, 0,
      1,  233, 3, 0, 0,
      0, 0, 0, 0, 0, 0, 240, 63,
      0, 0, 0, 0, 0, 0, 0, 64,
      0, 0, 0, 0, 0, 0, 8, 64>>

\* What the structure says the header is.
DimensionsName == <<"Xy", "Xyz", "Xym", "Xyzm">>
GeomDimensions(g) == DimensionsName[g.d + 1]
GeomSize(g) ==
    IF g.t = 1 THEN 1
    ELSE IF g.t = 2 THEN g.n
    ELSE IF g.t = 3 THEN Len(g.rings)
    ELSE Len(g.kids)
\* a Point, LineString or Polygon without a first coordinate
LeafIsEmpty(g) ==
    \/ g.t \in {1, 2} /\ g.n = 0
    \/ g.t = 3 /\ (g.rings = <<>> \/ g.rings[1] = 0)
LeafFirstXY(g) ==
    IF LeafIsEmpty(g) THEN <<F64_NAN, F64_NAN>>
    ELSE <<CoordTuple(g.d, g.c0)[1], CoordTuple(g.d, g.c0)[2]>>
\* the first Point, LineString or Polygon of g in encoding order, or None
RECURSIVE FirstLeafOfSeq(_)
RECURSIVE FirstLeaf(_)
FirstLeaf(g) ==
    IF g.t \in 1..3 THEN Some(g) ELSE FirstLeafOfSeq(g.kids)
FirstLeafOfSeq(gs) ==
    IF gs = <<>> THEN None
    ELSE LET f == FirstLeaf(Head(gs)) IN
         IF f # None THEN f ELSE FirstLeafOfSeq(Tail(gs))
\* no geometry of g carries the EWKB SRID flag
RECURSIVE IsPlainWkb(_)
IsPlainWkb(g) ==
    /\ g.srid = None
    /\ \A k \in 1..Len(g.kids) : IsPlainWkb(g.kids[k])

(***************************************************************************)
(* The input families of the header reader.                                *)
(***************************************************************************)
ByteOrders == {0, 1}
Dims == 0..3
\* SRID=0 and SRID=4326
Srids == {Some(0), Some(4326)}

Points(bos, ds, srids, c0) ==
    {Geom(1, d, bo, srid, n, c0, <<>>, <<>>) :
        d \in ds, bo \in bos, srid \in srids, n \in 0..1}
LineStrings(bos, ds, srids, c0) ==
    {Geom(2, d, bo, srid, n, c0, <<>>, <<>>) :
        d \in ds, bo \in bos, srid \in srids, n \in 0..MaxPoints}
\* no ring, or ring 0 with 0..MaxPoints points followed by full rings
RingCounts ==
    {<<>>} \cup
    {[r \in 1..nr |-> IF r = 1 THEN n0 ELSE MaxPoints] :
        nr \in 1..MaxRings, n0 \in 0..MaxPoints}
Polygons(bos, ds, srids, c0) ==
    {Geom(3, d, bo, srid, 0, c0, rings, <<>>) :
        d \in ds, bo \in bos, srid \in srids, rings \in RingCounts}
Leaves(bos, ds, srids, c0) ==
    Points(bos, ds, srids, c0) \cup LineStrings(bos, ds, srids, c0)
    \cup Polygons(bos, ds, srids, c0)

\* a non-empty second, third, ... child, whose first coordinate is tuple 2
Filler(t, bo, d) ==
    IF t = 5 THEN Geom(2, d, bo, None, MaxPoints, 2, <<>>, <<>>)
    ELSE IF t = 6 THEN Geom(3, d, bo, None, 0, 2, <<MaxPoints>>, <<>>)
    ELSE Geom(1, d, bo, None, 1, 2, <<>>, <<>>)
Collection(t, d, bo, srid, kids) == Geom(t, d, bo, srid, 0, 0, <<>>, kids)
\* nested collections: empty, with one point, with an empty collection first
NestedKids(bo) ==
    { Collection(7, 0, bo, None, <<>>),
      Collection(7, 0, bo, None, <<Filler(7, bo, 1)>>),
      Collection(7, 0, bo, None,
                 <<Collection(7, 0, bo, None, <<>>), Filler(7, bo, 3)>>) }
FirstKids(t, bo) ==
    IF t = 4 THEN Points(ByteOrders, Dims, {None}, 1)
    ELSE IF t = 5 THEN LineStrings(ByteOrders, Dims, {None}, 1)
    ELSE IF t = 6 THEN Polygons(ByteOrders, Dims, {None}, 1)
    ELSE Leaves(ByteOrders, Dims, {None}, 1) \cup NestedKids(bo)
KidLists(t, bo, d) ==
    {<<>>} \cup
    {<<f>> \o [k \in 1..(m - 1) |-> Filler(t, bo, d)] :
        f \in FirstKids(t, bo), m \in 1..MaxKids}
PlainCollections ==
    UNION {{Collection(t, d, bo, None, kids) : kids \in KidLists(t, bo, d)} :
              t \in 4..7, d \in Dims, bo \in ByteOrders}
\* EWKB collections: children without and with an SRID of their own
EwkbKidLists(t, bo) ==
    {<<>>, <<Filler(t, bo, 0)>>, <<Geom(t - 3, 0, bo, Some(4326), 1, 1, <<2>>, <<>>)>>}
EwkbCollections ==
    UNION {{Collection(t, 0, bo, srid, kids) :
              srid \in Srids, kids \in EwkbKidLists(t, bo)} :
           t \in 4..6, bo \in ByteOrders}
WellFormedGeoms ==
    Leaves(ByteOrders, Dims, {None}, 1) \cup Leaves(ByteOrders, {0, 1}, Srids, 1)
    \cup PlainCollections \cup EwkbCollections

\* the fixture: MULTIPOINT flagged XY with one POINT Z child
FixtureGeom ==
    Collection(4, 0, 1, None, <<Geom(1, 1, 1, None, 1, 1, <<>>, <<>>)>>)

\* Arbitrary byte slices.
RawAlphabet == {0, 1, 2}
RECURSIVE SeqsUpTo(_, _)
SeqsUpTo(S, n) ==
    IF n = 0 THEN {<<>>}
    ELSE LET shorter == SeqsUpTo(S, n - 1) IN
         shorter \cup {Append(s, b) : s \in {x \in shorter : Len(x) = n - 1}, b \in S}
RawSlices == SeqsUpTo(RawAlphabet, MaxRawLen)

\* Every strict prefix of some well-formed buffers.
TruncatedGeoms ==
    Leaves(ByteOrders, {0}, {None, Some(4326)}, 1)
    \cup {Collection(t, 0, bo, srid, <<Filler(t, bo, 0)>>) :
            t \in {4, 7}, bo \in ByteOrders, srid \in {None, Some(4326)}}
Truncations ==
    UNION {{SubSeq(make_wkb(g), 1, k) : k \in 0..(Len(make_wkb(g)) - 1)} :
              g \in TruncatedGeoms}

\* Headers with an unknown byte order, a type code whose low three bits are
\* not 1..7, or a dimension digit above 3, followed by a count of 0, by one
\* coordinate, or by a count of 1 and a point.
BadCodes == {0, 8, 9, 4001, 4002, 4004, 4007}
BadHeaders ==
    UNION {{<<bo>> \o U32Bytes(code, bo) \o tail :
              tail \in {U32Bytes(0, bo),
                        TupleBytes(CoordTuple(0, 1), bo),
                        U32Bytes(1, bo) \o make_wkb(Filler(4, 1, 0))}} :
           bo \in {0, 1, 2}, code \in BadCodes}
\* A collection whose first child is an EWKB collection cut after its SRID.
CutNested ==
    {make_wkb(Collection(7, 0, bo, None, <<>>)) \o <<bo>>
     \o U32Bytes(7 + SRID_FLAG_BIT, bo) \o U32Bytes(4326, bo) :
        bo \in ByteOrders}
    \cup
    {SubSeq(make_wkb(Collection(7, 0, bo, None, <<Collection(7, 0, bo,
                Some(4326), <<Filler(7, bo, 0)>>)>>)), 1, 18) : bo \in ByteOrders}
\* A collection of count 1 whose first child has an unknown byte order, a
\* type code whose low three bits are 0, or fewer than 5 bytes.
BadNested ==
    UNION {{<<bo>> \o U32Bytes(t, bo) \o U32Bytes(1, bo) \o nested :
              nested \in {<<2>> \o U32Bytes(1, 1) \o TupleBytes(CoordTuple(0, 1), 1),
                          <<bo>> \o U32Bytes(0, bo) \o TupleBytes(CoordTuple(0, 1), bo),
                          <<bo>> \o U32Bytes(8, bo) \o TupleBytes(CoordTuple(0, 1), bo),
                          <<bo, 1, 0>>}} :
           t \in {4, 5, 6, 7}, bo \in ByteOrders}
RawBufs == RawSlices \cup Truncations \cup BadHeaders \cup CutNested \cup BadNested

Inputs ==
    {[geom |-> g, buf |-> make_wkb(g)] : g \in WellFormedGeoms}
    \cup {[geom |-> FixtureGeom, buf |-> MULTIPOINT_WITH_INFERRED_Z_DIMENSION_WKB]}
    \cup {[geom |-> NoGeom, buf |-> b] : b \in RawBufs}

(***************************************************************************)
(* The state machine.                                                      *)
(***************************************************************************)
VARIABLES
    \* header reader: the caller's slice, the structure it was written from
    \* (NoGeom for a raw slice), the call position, try_new's result and the
    \* last accessor call with its return value
    buf, geom, pc, hdr, ret,
    \* endpoint kernel: which end, the batch's row count, the rows consumed,
    \* the row last handed to the closure, the closure's scratch buffer, the
    \* output builder and the batch's position
    from_start, num_iterations, row, cur, item, builder, kpc

VARIABLES
    \* ST_Buffer: the argument types given to return_type and what each
    \* kernel answered; the distance and style arguments of the batch, the
    \* distance column after to_array, the extracted style string, the
    \* parsed parameters, the batch's row count, the rows consumed, the row
    \* last handed to the closure, the rows for which the geometry library
    \* was called, the output builder and the batch's position; the tokens
    \* a generated style string was written from
    style_toks, arg_types, matched, distance_arg, style_arg, distance_value,
    buffer_style_params, params, b_num_iterations, b_row, b_cur, geos_calls,
    b_builder, bpc

bufferVars ==
    <<style_toks, arg_types, matched, distance_arg, style_arg, distance_value,
      buffer_style_params, params, b_num_iterations, b_row, b_cur, geos_calls,
      b_builder, bpc>>

VARIABLES
    \* infer_schema of the file-format adapter: the listed objects with what
    \* spec.infer_schema answers for each, the session's
    \* meta_fetch_concurrency, the number of objects pulled from the list,
    \* the started and not completed tasks, the completed tasks whose output
    \* waits in the buffer, the order in which tasks completed, the collected
    \* (location, schema) pairs, the returned value and the position
    objects, meta_fetch_concurrency, pulled, in_progress, queued_outputs,
    completion_order, schemas, inferred, ipc

inferVars ==
    <<objects, meta_fetch_concurrency, pulled, in_progress, queued_outputs,
      completion_order, schemas, inferred, ipc>>

VARIABLES
    \* file source and opener of the file-format adapter: the sources made
    \* so far (the first is the fresh one, each later one was made from the
    \* one before it), the calls that made them, what the last
    \* try_pushdown_filters returned, the opener, the files open() was called
    \* with, the arguments spec.open_reader was called with, the file of the
    \* future open() returned last, the items the reader open_reader
    \* returned has given so far, what open() and its future returned last,
    \* what the batch stream yielded so far and the position
    sources, calls, propagation, opener, opens, open_reader_calls,
    open_future, reader_returned, open_result, stream_out, spc

scanVars ==
    <<sources, calls, propagation, opener, opens, open_reader_calls,
      open_future, reader_returned, open_result, stream_out, spc>>

VARIABLES
    \* in-memory build-side stream: the list it was built from, the queue it
    \* holds, what each poll_next returned, what is_external returned last
    \* and the position
    built_from, batches, polls, is_external_ret, jpc

joinVars == <<built_from, batches, polls, is_external_ret, jpc>>

hdrVars == <<buf, geom, pc, hdr, ret>>
kernelVars == <<from_start, num_iterations, row, cur, item, builder, kpc>>
vars == <<buf, geom, pc, hdr, ret,
          from_start, num_iterations, row, cur, item, builder, kpc,
          bufferVars, inferVars, scanVars, joinVars>>

NoCall == [acc |-> "none", val |-> 0]

HdrInit ==
    /\ \E in \in Inputs : buf = in.buf /\ geom = in.geom
    /\ pc = "input"
    /\ hdr = Err("not built")
    /\ ret = NoCall

HdrIdle ==
    /\ buf = <<>> /\ geom = NoGeom /\ pc = "idle"
    /\ hdr = Err("not built") /\ ret = NoCall

\* let header = WkbHeader::try_new(&buf)
TryNew ==
    /\ pc = "input"
    /\ hdr' = try_new(buf)
    /\ pc' = "built"
    /\ UNCHANGED <<buf, geom, ret>>
    /\ UNCHANGED <<kernelVars, bufferVars, inferVars, scanVars, joinVars>>

Built == pc = "built" /\ hdr.tag = "Ok"

CallGeometryTypeId ==
    /\ Built
    /\ ret' = [acc |-> "geometry_type_id", val |-> WkbHeader_geometry_type_id(hdr.val)]
    /\ UNCHANGED <<buf, geom, pc, hdr>>
    /\ UNCHANGED <<kernelVars, bufferVars, inferVars, scanVars, joinVars>>

CallSize ==
    /\ Built
    /\ ret' = [acc |-> "size", val |-> WkbHeader_size(hdr.val)]
    /\ UNCHANGED <<buf, geom, pc, hdr>>
    /\ UNCHANGED <<kernelVars, bufferVars, inferVars, scanVars, joinVars>>

CallSrid ==
    /\ Built
    /\ ret' = [acc |-> "srid", val |-> WkbHeader_srid(hdr.val)]
    /\ UNCHANGED <<buf, geom, pc, hdr>>
    /\ UNCHANGED <<kernelVars, bufferVars, inferVars, scanVars, joinVars>>

CallFirstXY ==
    /\ Built
    /\ ret' = [acc |-> "first_xy", val |-> WkbHeader_first_xy(hdr.val)]
    /\ UNCHANGED <<buf, geom, pc, hdr>>
    /\ UNCHANGED <<kernelVars, bufferVars, inferVars, scanVars, joinVars>>

CallDimensions ==
    /\ Built
    /\ ret' = [acc |-> "dimensions", val |-> WkbHeader_dimensions(hdr.val)]
    /\ UNCHANGED <<buf, geom, pc, hdr>>
    /\ UNCHANGED <<kernelVars, bufferVars, inferVars, scanVars, joinVars>>

CallFirstGeomDimensions ==
    /\ Built
    /\ ret' = [acc |-> "first_geom_dimensions",
               val |-> WkbHeader_first_geom_dimensions(hdr.val)]
    /\ UNCHANGED <<buf, geom, pc, hdr>>
    /\ UNCHANGED <<kernelVars, bufferVars, inferVars, scanVars, joinVars>>

HdrNext ==
    \/ TryNew
    \/ CallGeometryTypeId
    \/ CallSize
    \/ CallSrid
    \/ CallFirstXY
    \/ CallDimensions
    \/ CallFirstGeomDimensions

(***************************************************************************)
(* st_start_point.rs: STStartOrEndPoint::invoke_batch.                     *)
(***************************************************************************)
\* let mut item = [0u8; 37]; item[0] = 0x01
ItemLen == 37
ItemInit == [k \in 1..ItemLen |-> IF k = 1 THEN 1 ELSE 0]
\* item[i] = v, i 0-based
SetByte(it, i, v) == [it EXCEPT ![i + 1] = v]

\* a mutation: the XY arm also takes the POINT code 0x0001
MatchLineString_AlsoPoint(it, b1, b2) ==
    IF b1 \in {1, 2} /\ b2 = 0
    THEN Some([item |-> SetByte(it, 1, 1), n_bytes |-> 16])
    ELSE IF b1 = 234 /\ b2 = 3
    THEN Some([item |-> SetByte(SetByte(it, 1, 233), 2, 3), n_bytes |-> 24])
    ELSE IF b1 = 210 /\ b2 = 7
    THEN Some([item |-> SetByte(SetByte(it, 1, 209), 2, 7), n_bytes |-> 24])
    ELSE IF b1 = 186 /\ b2 = 11
    THEN Some([item |-> SetByte(SetByte(it, 1, 185), 2, 11), n_bytes |-> 32])
    ELSE None
\* lines 115-151: match (buf[1], buf[2]); None stands for the arm that
\* appends a null
MatchLineString(it, b1, b2) ==
    IF b1 = 2 /\ b2 = 0
    THEN Some([item |-> SetByte(it, 1, 1), n_bytes |-> 16])
    ELSE IF b1 = 234 /\ b2 = 3
    THEN Some([item |-> SetByte(SetByte(it, 1, 233), 2, 3), n_bytes |-> 24])
    ELSE IF b1 = 210 /\ b2 = 7
    THEN Some([item |-> SetByte(SetByte(it, 1, 209), 2, 7), n_bytes |-> 24])
    ELSE IF b1 = 186 /\ b2 = 11
    THEN Some([item |-> SetByte(SetByte(it, 1, 185), 2, 11), n_bytes |-> 32])
    ELSE None

\* lines 152-157: dst_offset and src_offset; len - n_bytes below zero
\* overflows usize (a panic, or a wrapped offset that the slice rejects)
DstOffset == 5
SrcOffset(fs, len, n_bytes) ==
    IF fs THEN Ok(9)
    ELSE IF len < n_bytes THEN Panic
    ELSE Ok(len - n_bytes)

\* lines 158-159: item[dst..dst + n].copy_from_slice(&buf[src..src + n])
CopyFromSlice(it, dst, b, src, n) ==
    [k \in 1..ItemLen |->
        IF k - 1 >= dst /\ k - 1 < dst + n THEN b[src + (k - 1 - dst) + 1]
        ELSE it[k]]

\* the closure on Some(wkb): [tag, item, val] with tag "Value" (val
\* appended), "Null" (a null appended) or "Panic"
EndpointOfWkb(it, b, fs) ==
    IF Len(b) < 3 THEN [tag |-> "Panic", item |-> it, val |-> <<>>]
    ELSE
      LET m == MatchLineString(it, b[2], b[3]) IN
      IF m = None THEN [tag |-> "Null", item |-> it, val |-> <<>>]
      ELSE
        LET n_bytes == m[1].n_bytes
            src_offset == SrcOffset(fs, Len(b), n_bytes)
        IN
        IF src_offset.tag # "Ok"
           \/ ~SliceOk(b, src_offset.val, src_offset.val + n_bytes)
        THEN [tag |-> "Panic", item |-> m[1].item, val |-> <<>>]
        ELSE
          LET copied == CopyFromSlice(m[1].item, DstOffset, b,
                                      src_offset.val, n_bytes)
          IN [tag |-> "Value", item |-> copied,
              val |-> Slice(copied, 0, DstOffset + n_bytes)]

\* The rows of a batch: a null, or the WKB of a geometry.
NullRow == [geom |-> NoGeom, wkb |-> None]
NoRow == [geom |-> NoGeom, wkb |-> Some(<<>>)]
EndpointGeoms ==
    LineStrings({1}, Dims, {None}, 1)
    \cup {Geom(2, d, 0, None, MaxPoints, 1, <<>>, <<>>) : d \in Dims}
    \cup {Geom(1, d, 1, None, 1, 1, <<>>, <<>>) : d \in Dims}
    \cup {Geom(3, d, 1, None, 0, 1, <<MaxPoints>>, <<>>) : d \in Dims}
    \cup {Collection(t, d, 1, None, <<Filler(t, 1, d)>>) : t \in 4..7, d \in Dims}
    \cup {Geom(1, d, 0, None, 1, 1, <<>>, <<>>) : d \in Dims}
    \cup {Geom(3, d, 0, None, 0, 1, <<MaxPoints>>, <<>>) : d \in Dims}
    \cup {Collection(t, d, 0, None, <<Filler(t, 0, d)>>) : t \in 4..7, d \in Dims}
RowValues ==
    {NullRow} \cup {[geom |-> g, wkb |-> Some(make_wkb(g))] : g \in EndpointGeoms}

KernelIdle ==
    /\ from_start = TRUE /\ num_iterations = 0 /\ row = 0 /\ cur = NoRow
    /\ item = ItemInit /\ builder = <<>> /\ kpc = "idle"

\* invoke_batch up to the call of execute_wkb_void
KernelInit ==
    /\ from_start \in BOOLEAN
    /\ num_iterations \in 0..MaxRows
    /\ row = 0
    /\ cur = NoRow
    /\ item = ItemInit
    /\ builder = <<>>
    /\ kpc = "running"

\* the closure on None: builder.append_null()
ProcessNullRow ==
    /\ kpc = "running" /\ row < num_iterations
    /\ cur' = NullRow
    /\ builder' = Append(builder, None)
    /\ row' = row + 1
    /\ UNCHANGED <<from_start, num_iterations, item, kpc>>
    /\ UNCHANGED <<hdrVars, bufferVars, inferVars, scanVars, joinVars>>

\* the closure on Some(wkb)
ProcessWkbRow ==
    /\ kpc = "running" /\ row < num_iterations
    /\ \E r \in RowValues \ {NullRow} :
         LET e == EndpointOfWkb(item, r.wkb[1], from_start) IN
         /\ cur' = r
         /\ item' = e.item
         /\ row' = row + 1
         /\ builder' = IF e.tag = "Value" THEN Append(builder, Some(e.val))
                       ELSE IF e.tag = "Null" THEN Append(builder, None)
                       ELSE builder
         /\ kpc' = IF e.tag = "Panic" THEN "panic" ELSE kpc
    /\ UNCHANGED <<from_start, num_iterations>>
    /\ UNCHANGED <<hdrVars, bufferVars, inferVars, scanVars, joinVars>>

\* executor.finish(Arc::new(builder.finish()))
Finish ==
    /\ kpc = "running" /\ row = num_iterations
    /\ kpc' = "done"
    /\ UNCHANGED <<from_start, num_iterations, row, cur, item, builder>>
    /\ UNCHANGED <<hdrVars, bufferVars, inferVars, scanVars, joinVars>>

KernelNext ==
    \/ ProcessNullRow
    \/ ProcessWkbRow
    \/ Finish

(***************************************************************************)
(* st_buffer.rs: the two ST_Buffer kernels.                                *)
(* A SedonaType is its name.  A string is a sequence of atoms: the         *)
(* whitespace atom WS, the atom "=" and words that contain neither; a      *)
(* formatted message is the sequence of its literal pieces and arguments.  *)
(***************************************************************************)
WKB_GEOMETRY == "WkbGeometry"
WKB_VIEW_GEOMETRY == "WkbViewGeometry"
SedonaTypes ==
    {WKB_GEOMETRY, WKB_VIEW_GEOMETRY, "Float64", "Int32", "Utf8", "Boolean"}

\* the argument predicates of sedona_schema::matchers::ArgMatcher
match_type(matcher, arg) ==
    IF matcher = "is_geometry" THEN arg \in {WKB_GEOMETRY, WKB_VIEW_GEOMETRY}
    ELSE IF matcher = "is_numeric" THEN arg \in {"Float64", "Int32"}
    ELSE IF matcher = "is_string" THEN arg = "Utf8"
    ELSE IF matcher = "is_boolean" THEN arg = "Boolean"
    ELSE FALSE
\* ArgMatcher::match_args: positional and arity-exact; Ok(None) is "no match"
match_args(matchers, out_type, args) ==
    IF /\ Len(args) = Len(matchers)
       /\ \A i \in 1..Len(args) : match_type(matchers[i], args[i])
    THEN Ok(Some(out_type))
    ELSE Ok(None)

\* STBuffer::return_type
STBuffer_return_type(args) ==
    match_args(<<"is_geometry", "is_numeric">>, WKB_GEOMETRY, args)
\* a mutation: the style argument is an optional trailing argument
STBufferStyle_return_type_OptionalStyle(args) ==
    IF Len(args) = 2
    THEN match_args(<<"is_geometry", "is_numeric">>, WKB_GEOMETRY, args)
    ELSE match_args(<<"is_geometry", "is_numeric", "is_string">>,
                    WKB_GEOMETRY, args)
\* STBufferStyle::return_type
STBufferStyle_return_type(args) ==
    match_args(<<"is_geometry", "is_numeric", "is_string">>, WKB_GEOMETRY, args)
\* the kernels of ST_Buffer, in the order they are tried
BufferKernels == <<"STBuffer", "STBufferStyle">>
KernelReturnType(k, args) ==
    IF k = "STBuffer" THEN STBuffer_return_type(args)
    ELSE STBufferStyle_return_type(args)

\* str::split_whitespace: the maximal runs of atoms other than WS
WS == " "
RunLength(s) ==
    IF \E i \in 1..Len(s) : s[i] = WS
    THEN (CHOOSE i \in 1..Len(s) :
            s[i] = WS /\ \A j \in 1..(i - 1) : s[j] # WS) - 1
    ELSE Len(s)
RECURSIVE split_whitespace(_)
split_whitespace(s) ==
    IF s = <<>> THEN <<>>
    ELSE IF Head(s) = WS THEN split_whitespace(Tail(s))
    ELSE <<SubSeq(s, 1, RunLength(s))>>
         \o split_whitespace(SubSeq(s, RunLength(s) + 1, Len(s)))
\* str::split_once('='): None, or the parts before and after the first "="
split_once(param) ==
    IF \E i \in 1..Len(param) : param[i] = "="
    THEN LET i == CHOOSE i \in 1..Len(param) :
                    param[i] = "=" /\ \A j \in 1..(i - 1) : param[j] # "="
         IN Some(<<SubSeq(param, 1, i - 1), SubSeq(param, i + 1, Len(param))>>)
    ELSE None
\* str::to_lowercase on the words used here
LowerWord(w) ==
    CASE w = "ENDCAP" -> "endcap"
      [] w = "Join" -> "join"
      [] w = "SIDE" -> "side"
      [] w = "Quad_Segs" -> "quad_segs"
      [] w = "Unknown_Param" -> "unknown_param"
      [] w = "ROUND" -> "round"
      [] w = "Bevel" -> "bevel"
      [] w = "LEFT" -> "left"
      [] OTHER -> w
to_lowercase(s) == [i \in 1..Len(s) |-> LowerWord(s[i])]

\* str::parse::<f64> and str::parse::<i32> on the words used here; an f64
\* is written in tenths
F64Literals == ("2.5" :> 25) @@ ("5" :> 50) @@ ("-5" :> -50) @@ ("8" :> 80)
I32Literals == ("5" :> 5) @@ ("-5" :> -5) @@ ("8" :> 8)
\* parse_number::<T>
parse_number(value, param_name, T) ==
    LET literals == IF T = "f64" THEN F64Literals ELSE I32Literals IN
    IF Len(value) = 1 /\ value[1] \in DOMAIN literals
    THEN Ok(literals[value[1]])
    ELSE Err(<<"Invalid ", param_name, " value: '", value,
               "'. Expected a valid number">>)
\* parse_cap_style
parse_cap_style(value) ==
    LET v == to_lowercase(value) IN
    IF v = <<"round">> THEN Ok("Round")
    ELSE IF v = <<"flat">> \/ v = <<"butt">> THEN Ok("Flat")
    ELSE IF v = <<"square">> THEN Ok("Square")
    ELSE Err(<<"Invalid endcap style: '", value,
               "'. Valid options: round, flat, butt, square">>)
\* a mutation: the join error is reported with the endcap message
parse_join_style_EndcapMessage(value) ==
    LET v == to_lowercase(value) IN
    IF v = <<"round">> THEN Ok("Round")
    ELSE IF v = <<"mitre">> \/ v = <<"miter">> THEN Ok("Mitre")
    ELSE IF v = <<"bevel">> THEN Ok("Bevel")
    ELSE Err(<<"Invalid endcap style: '", value,
               "'. Valid options: round, flat, butt, square">>)
\* parse_join_style
parse_join_style(value) ==
    LET v == to_lowercase(value) IN
    IF v = <<"round">> THEN Ok("Round")
    ELSE IF v = <<"mitre">> \/ v = <<"miter">> THEN Ok("Mitre")
    ELSE IF v = <<"bevel">> THEN Ok("Bevel")
    ELSE Err(<<"Invalid join style: '", value,
               "'. Valid options: round, mitre, miter, bevel">>)
\* parse_side
parse_side(value) ==
    LET v == to_lowercase(value) IN
    IF v = <<"both">> THEN Ok(FALSE)
    ELSE IF v = <<"left">> \/ v = <<"right">> THEN Ok(TRUE)
    ELSE Err(<<"Invalid side: '", value,
               "'. Valid options: both, left, right">>)

\* BufferParams::builder(): every setting unset; build() keeps what was set
BufferParamsBuilder ==
    [end_cap_style |-> None, join_style |-> None, single_sided |-> None,
     mitre_limit |-> None, quadrant_segments |-> None]
build(params_builder) == Ok(params_builder)

\* a mutation: the key is matched as written, without to_lowercase
ParamKey_CaseSensitive(key) == key
\* lines 187, 208: key.to_lowercase()
ParamKey(key) == to_lowercase(key)

\* one turn of the loop of lines 179-212: Ok(the builder) or the Err returned
ParamStep(params_builder, param) ==
    LET kv == split_once(param) IN
    IF kv = None
    THEN Err(<<"Missing value for buffer parameter: ", param>>)
    ELSE
      LET key == ParamKey(kv[1][1])
          value == kv[1][2]
      IN
      IF key = <<"endcap">>
      THEN LET r == parse_cap_style(value) IN
           IF r.tag = "Ok"
           THEN Ok([params_builder EXCEPT !.end_cap_style = Some(r.val)])
           ELSE r
      ELSE IF key = <<"join">>
      THEN LET r == parse_join_style(value) IN
           IF r.tag = "Ok"
           THEN Ok([params_builder EXCEPT !.join_style = Some(r.val)])
           ELSE r
      ELSE IF key = <<"side">>
      THEN LET r == parse_side(value) IN
           IF r.tag = "Ok"
           THEN Ok([params_builder EXCEPT !.single_sided = Some(r.val)])
           ELSE r
      ELSE IF key = <<"mitre_limit">> \/ key = <<"miter_limit">>
      THEN LET r == parse_number(value, "mitre_limit", "f64") IN
           IF r.tag = "Ok"
           THEN Ok([params_builder EXCEPT !.mitre_limit = Some(r.val)])
           ELSE r
      ELSE IF key = <<"quad_segs">> \/ key = <<"quadrant_segments">>
      THEN LET r == parse_number(value, "quadrant_segments", "i32") IN
           IF r.tag = "Ok"
           THEN Ok([params_builder EXCEPT !.quadrant_segments = Some(r.val)])
           ELSE r
      ELSE Err(<<"Invalid buffer parameter: ", key,
                 " (accept: 'endcap', 'join', 'mitre_limit', 'miter_limit', 'quad_segs' and 'side')">>)

\* a mutation: the loop goes on after a failure and reports the last one
RECURSIVE ParamsLoop_LastError(_, _)
ParamsLoop_LastError(params_builder, toks) ==
    IF toks = <<>> THEN build(params_builder)
    ELSE LET r == ParamStep(params_builder, Head(toks)) IN
         IF r.tag = "Ok" THEN ParamsLoop_LastError(r.val, Tail(toks))
         ELSE LET rest == ParamsLoop_LastError(params_builder, Tail(toks)) IN
              IF rest.tag = "Ok" THEN r ELSE rest
\* the loop of lines 179-212 and the build of lines 214-216
RECURSIVE ParamsLoop(_, _)
ParamsLoop(params_builder, toks) ==
    IF toks = <<>> THEN build(params_builder)
    ELSE LET r == ParamStep(params_builder, Head(toks)) IN
         IF r.tag = "Ok" THEN ParamsLoop(r.val, Tail(toks))
         ELSE r

\* parse_buffer_params(params_str: Option<&str>)
parse_buffer_params(params_str) ==
    IF params_str = None THEN build(BufferParamsBuilder)
    ELSE ParamsLoop(BufferParamsBuilder, split_whitespace(params_str[1]))

(***************************************************************************)
(* The inputs of ST_Buffer.                                                *)
(***************************************************************************)
ArgTypeLists == SeqsUpTo(SedonaTypes, MaxArgs)

Tok(k, v) == <<k, "=", v>>
ValidTokens ==
    {Tok("endcap", v) : v \in {"round", "flat", "butt", "square"}}
    \cup {Tok("join", v) : v \in {"round", "mitre", "miter", "bevel"}}
    \cup {Tok("side", v) : v \in {"both", "left", "right"}}
    \cup {Tok(k, v) : k \in {"mitre_limit", "miter_limit"}, v \in {"2.5", "-5"}}
    \cup {Tok(k, v) : k \in {"quad_segs", "quadrant_segments"}, v \in {"8", "-5"}}
    \cup {Tok("ENDCAP", "ROUND"), Tok("Join", "Bevel"), Tok("SIDE", "LEFT"),
          Tok("Quad_Segs", "5")}
InvalidTokens ==
    {<<"bare_param">>, <<"endcap">>,
     Tok("unknown_param", "value"), Tok("Unknown_Param", "value"),
     <<"=", "round">>,
     Tok("endcap", "wrong"), <<"endcap", "=">>,
     <<"endcap", "=", "round", "=", "flat">>,
     Tok("join", "invalid"), Tok("side", "invalid"),
     Tok("mitre_limit", "not_a_number"), Tok("miter_limit", "abc"),
     Tok("quad_segs", "not_an_int"), Tok("quad_segs", "2.5"),
     Tok("quadrant_segments", "xyz")}
StyleTokens == ValidTokens \cup InvalidTokens
\* the tokens written with one blank between them, or with blanks before,
\* after and twice between
JoinTokens(toks, loose) ==
    (IF loose THEN <<WS>> ELSE <<>>)
    \o Concat([i \in 1..Len(toks) |->
          (IF i = 1 THEN <<>> ELSE IF loose THEN <<WS, WS>> ELSE <<WS>>)
          \o toks[i]])
    \o (IF loose THEN <<WS>> ELSE <<>>)
StyleStrings ==
    {JoinTokens(toks, loose) :
        toks \in SeqsUpTo(StyleTokens, MaxTokens), loose \in BOOLEAN}

\* a ColumnarValue: a scalar (None is the SQL null) or a column
Scalar(v) == [kind |-> "Scalar", val |-> v]
Array(a) == [kind |-> "Array", val |-> a]
Absent == [kind |-> "Absent", val |-> <<>>]
Distances == {None, Some(1), Some(2)}
\* the style strings of the batches: those of the tests, the empty one and
\* two invalid ones
BatchStyles ==
    {<<>>,
     JoinTokens(<<Tok("endcap", "flat"), Tok("join", "mitre"),
                  Tok("quad_segs", "2")>>, FALSE),
     JoinTokens(<<Tok("endcap", "square"), Tok("join", "bevel")>>, FALSE),
     JoinTokens(<<Tok("endcap", "wrong"), Tok("join", "mitre")>>, FALSE),
     JoinTokens(<<Tok("endcap", "round"), <<"bare_param">>,
                  Tok("join", "mitre")>>, FALSE)}
StyleArgs ==
    {Scalar(None), Array(<<>>)} \cup {Scalar(Some(s)) : s \in BatchStyles}
BufferGeoms == {"POINT (1 2)", "LINESTRING (0 0, 10 0)"}

(***************************************************************************)
(* st_buffer.rs: invoke_batch_impl.                                        *)
(***************************************************************************)
\* a mutation: a scalar is placed at the first row only
to_array_FirstRowOnly(arg, num_rows) ==
    IF arg.kind = "Scalar"
    THEN [i \in 1..num_rows |-> IF i = 1 THEN arg.val ELSE None]
    ELSE arg.val
\* ColumnarValue::to_array(num_rows)
to_array(arg, num_rows) ==
    IF arg.kind = "Scalar" THEN [i \in 1..num_rows |-> arg.val] ELSE arg.val
\* extract_optional_string
extract_optional_string(arg) ==
    IF arg.kind = "Absent" THEN Ok(None)
    ELSE IF arg.kind = "Scalar" THEN Ok(arg.val)
    ELSE Err(<<"Expected scalar bufferStyleParameters, got: ", arg>>)
\* what invoke_scalar writes for a geometry, a distance and the parameters
BufferOf(g, distance, p) == [buffer_of |-> g, distance |-> distance, params |-> p]

NotParsed == Err(<<"not parsed">>)
BufferIdle ==
    /\ style_toks = <<>>
    /\ arg_types = <<>> /\ matched = <<>>
    /\ distance_arg = Absent /\ style_arg = Absent /\ distance_value = <<>>
    /\ buffer_style_params = None /\ params = NotParsed
    /\ b_num_iterations = 0 /\ b_row = 0 /\ b_cur = <<>> /\ geos_calls = {}
    /\ b_builder = <<>> /\ bpc = "idle"

\* a call of ST_Buffer with some list of argument types
BufferInit ==
    /\ style_toks = <<>>
    /\ arg_types \in ArgTypeLists /\ matched = <<>>
    /\ distance_arg = Absent /\ style_arg = Absent /\ distance_value = <<>>
    /\ buffer_style_params = None /\ params = NotParsed
    /\ b_num_iterations = 0 /\ b_row = 0 /\ b_cur = <<>> /\ geos_calls = {}
    /\ b_builder = <<>> /\ bpc = "plan"

\* the planner asks every kernel for its return type
ReturnType ==
    /\ bpc = "plan"
    /\ matched' = [i \in 1..Len(BufferKernels) |->
                      KernelReturnType(BufferKernels[i], arg_types)]
    /\ bpc' = IF \E i \in 1..Len(BufferKernels) :
                    KernelReturnType(BufferKernels[i], arg_types) # Ok(None)
              THEN "matched" ELSE "no match"
    /\ UNCHANGED <<style_toks, arg_types, distance_arg, style_arg, distance_value,
                   buffer_style_params, params, b_num_iterations, b_row,
                   b_cur, geos_calls, b_builder>>
    /\ UNCHANGED <<hdrVars, kernelVars, inferVars, scanVars, joinVars>>

\* a mutation: the rows are run whatever the parse of the style string gave
InvokeBatch_IgnoreParseError ==
    /\ bpc = "matched"
    /\ \E n \in 0..MaxRows :
       \E v \in Distances, a \in [1..n -> Distances], scalar \in BOOLEAN :
       \E s \in IF Len(arg_types) = 3 THEN StyleArgs ELSE {Absent} :
         LET d == IF scalar THEN Scalar(v) ELSE Array(a)
             style == extract_optional_string(s)
         IN
         /\ b_num_iterations' = n
         /\ distance_arg' = d
         /\ style_arg' = s
         /\ distance_value' = to_array(d, n)
         /\ buffer_style_params' = IF style.tag = "Ok" THEN style.val ELSE None
         /\ params' = IF style.tag = "Ok" THEN parse_buffer_params(style.val)
                      ELSE style
         /\ bpc' = IF style.tag = "Ok" THEN "running" ELSE "failed"
    /\ UNCHANGED <<style_toks, arg_types, matched, b_row, b_cur, geos_calls, b_builder>>
    /\ UNCHANGED <<hdrVars, kernelVars, inferVars, scanVars, joinVars>>

\* invoke_batch_impl up to the call of execute_wkb_void (lines 104-120): the
\* arguments of a batch of n rows
InvokeBatch ==
    /\ bpc = "matched"
    /\ \E n \in 0..MaxRows :
       \E v \in Distances, a \in [1..n -> Distances], scalar \in BOOLEAN :
       \E s \in IF Len(arg_types) = 3 THEN StyleArgs ELSE {Absent} :
         LET d == IF scalar THEN Scalar(v) ELSE Array(a)
             style == extract_optional_string(s)
         IN
         /\ b_num_iterations' = n
         /\ distance_arg' = d
         /\ style_arg' = s
         /\ distance_value' = to_array(d, n)
         /\ buffer_style_params' = IF style.tag = "Ok" THEN style.val ELSE None
         /\ params' = IF style.tag = "Ok" THEN parse_buffer_params(style.val)
                      ELSE style
         /\ bpc' = IF style.tag = "Ok" /\ parse_buffer_params(style.val).tag = "Ok"
                   THEN "running" ELSE "failed"
    /\ UNCHANGED <<style_toks, arg_types, matched, b_row, b_cur, geos_calls, b_builder>>
    /\ UNCHANGED <<hdrVars, kernelVars, inferVars, scanVars, joinVars>>

\* the closure of lines 122-132 on one row: a geometry or a null, and the
\* next distance; the geometry library returns a buffer or fails
BufferRow ==
    /\ bpc = "running" /\ b_row < b_num_iterations
    /\ \E wkb \in {None} \cup {Some(g) : g \in BufferGeoms} :
       \E geos_ok \in BOOLEAN :
         LET distance == distance_value[b_row + 1] IN
         /\ b_cur' = [wkb |-> wkb, distance |-> distance]
         /\ b_row' = b_row + 1
         /\ IF wkb # None /\ distance # None
            THEN /\ geos_calls' = geos_calls \cup {b_row + 1}
                 /\ IF geos_ok
                    THEN /\ b_builder' = Append(b_builder,
                               Some(BufferOf(wkb[1], distance[1], params.val)))
                         /\ bpc' = bpc
                    ELSE /\ b_builder' = b_builder
                         /\ bpc' = "failed"
            ELSE /\ geos_ok
                 /\ geos_calls' = geos_calls
                 /\ b_builder' = Append(b_builder, None)
                 /\ bpc' = bpc
    /\ UNCHANGED <<style_toks, arg_types, matched, distance_arg, style_arg, distance_value,
                   buffer_style_params, params, b_num_iterations>>
    /\ UNCHANGED <<hdrVars, kernelVars, inferVars, scanVars, joinVars>>

\* executor.finish(Arc::new(builder.finish()))
BufferFinish ==
    /\ bpc = "running" /\ b_row = b_num_iterations
    /\ bpc' = "done"
    /\ UNCHANGED <<style_toks, arg_types, matched, distance_arg, style_arg, distance_value,
                   buffer_style_params, params, b_num_iterations, b_row,
                   b_cur, geos_calls, b_builder>>
    /\ UNCHANGED <<hdrVars, kernelVars, inferVars, scanVars, joinVars>>

BufferNext ==
    \/ ReturnType
    \/ InvokeBatch
    \/ BufferRow
    \/ BufferFinish

\* parse_buffer_params on its own: a style string, or none
StyleInit ==
    /\ arg_types = <<>> /\ matched = <<>>
    /\ distance_arg = Absent /\ style_arg = Absent /\ distance_value = <<>>
    /\ \/ style_toks = <<>> /\ buffer_style_params = None
       \/ \E toks \in SeqsUpTo(StyleTokens, MaxTokens), loose \in BOOLEAN :
            /\ style_toks = toks
            /\ buffer_style_params = Some(JoinTokens(toks, loose))
    /\ params = NotParsed
    /\ b_num_iterations = 0 /\ b_row = 0 /\ b_cur = <<>> /\ geos_calls = {}
    /\ b_builder = <<>> /\ bpc = "parse"

\* let params = parse_buffer_params(buffer_style_params.as_deref())
ParseBufferParams ==
    /\ bpc = "parse"
    /\ params' = parse_buffer_params(buffer_style_params)
    /\ bpc' = "parsed"
    /\ UNCHANGED <<style_toks, arg_types, matched, distance_arg, style_arg, distance_value,
                   buffer_style_params, b_num_iterations, b_row, b_cur,
                   geos_calls, b_builder>>
    /\ UNCHANGED <<hdrVars, kernelVars, inferVars, scanVars, joinVars>>

StyleNext == ParseBufferParams

(***************************************************************************)
(* format.rs: RecordBatchReaderFormat::infer_schema.                       *)
(* A location is its rank in the order of object_store::path::Path; a      *)
(* schema is the sequence of its fields [name, data_type].                 *)
(***************************************************************************)
Field(name, data_type) == [name |-> name, data_type |-> data_type]
\* a mutation: a field already merged keeps its first data type
try_merge_field_KeepFirst(fields, f) ==
    IF \E i \in 1..Len(fields) : fields[i].name = f.name
    THEN Ok(fields)
    ELSE Ok(Append(fields, f))
\* SchemaBuilder::try_merge of one field into the fields merged so far
try_merge_field(fields, f) ==
    IF \E i \in 1..Len(fields) : fields[i].name = f.name
    THEN LET i == CHOOSE i \in 1..Len(fields) : fields[i].name = f.name IN
         IF fields[i].data_type = f.data_type THEN Ok(fields)
         ELSE Err(<<"Fail to merge schema field ", f.name,
                    " because the from data_type = ", f.data_type,
                    " does not equal ", fields[i].data_type>>)
    ELSE Ok(Append(fields, f))
RECURSIVE try_merge_fields(_, _)
try_merge_fields(fields, more) ==
    IF more = <<>> THEN Ok(fields)
    ELSE LET r == try_merge_field(fields, Head(more)) IN
         IF r.tag = "Ok" THEN try_merge_fields(r.val, Tail(more)) ELSE r
\* Schema::try_merge(schemas), from the fields merged so far
RECURSIVE try_merge_from(_, _)
try_merge_from(fields, ss) ==
    IF ss = <<>> THEN Ok(fields)
    ELSE LET r == try_merge_fields(fields, Head(ss)) IN
         IF r.tag = "Ok" THEN try_merge_from(r.val, Tail(ss)) ELSE r
try_merge(ss) == try_merge_from(<<>>, ss)

\* a mutation: the pairs are left in the order they were collected
sort_by_Unsorted(pairs) == pairs
\* line 134: schemas.sort_by(location1.cmp(location2)), a stable sort
RECURSIVE sort_by(_)
sort_by(pairs) ==
    IF pairs = <<>> THEN <<>>
    ELSE LET sorted == sort_by(SubSeq(pairs, 1, Len(pairs) - 1))
             last == pairs[Len(pairs)]
             k == Cardinality({i \in 1..Len(sorted) :
                                 sorted[i].location <= last.location})
         IN SubSeq(sorted, 1, k) \o <<last>> \o SubSeq(sorted, k + 1, Len(sorted))
\* lines 134-142: sort, drop the locations, merge
SortAndMerge(pairs) ==
    LET sorted == sort_by(pairs) IN
    try_merge([i \in 1..Len(sorted) |-> sorted[i].schema])

\* The listed objects: distinct locations in any order, each with the
\* answer of spec.infer_schema for it.
ObjectSchemas ==
    {<<Field("a", "Int64")>>,
     <<Field("b", "Utf8"), Field("a", "Int64")>>,
     <<Field("a", "Utf8")>>}
InferAnswers ==
    {Ok(s) : s \in ObjectSchemas} \cup {Err(<<"infer_schema failed">>)}
Locations == 1..MaxObjects
LocationLists ==
    {l \in SeqsUpTo(Locations, MaxObjects) :
        \A i, j \in 1..Len(l) : i # j => l[i] # l[j]}
ObjectLists ==
    UNION {{[i \in 1..Len(l) |-> [location |-> l[i], answer |-> a[i]]] :
               a \in [1..Len(l) -> InferAnswers]} : l \in LocationLists}

NotReturned == Err(<<"not returned">>)
InferIdle ==
    /\ objects = <<>> /\ meta_fetch_concurrency = 0 /\ pulled = 0
    /\ in_progress = {} /\ queued_outputs = {} /\ completion_order = <<>>
    /\ schemas = <<>> /\ inferred = NotReturned /\ ipc = "idle"

InferInit ==
    /\ objects \in ObjectLists
    /\ meta_fetch_concurrency \in 0..MaxConcurrency
    /\ pulled = 0 /\ in_progress = {} /\ queued_outputs = {}
    /\ completion_order = <<>> /\ schemas = <<>>
    /\ inferred = NotReturned /\ ipc = "collecting"

\* a mutation: the next object is pulled whatever the buffer holds
StartInference_Unbounded ==
    /\ ipc = "collecting"
    /\ pulled < Len(objects)
    /\ pulled' = pulled + 1
    /\ in_progress' = in_progress \cup {pulled + 1}
    /\ UNCHANGED <<objects, meta_fetch_concurrency, queued_outputs,
                   completion_order, schemas, inferred, ipc>>
    /\ UNCHANGED <<hdrVars, kernelVars, bufferVars, scanVars, joinVars>>

\* buffered(n) pulls the next object while fewer than n tasks are in its
\* buffer, running or completed; the task calls spec.infer_schema
StartInference ==
    /\ ipc = "collecting"
    /\ pulled < Len(objects)
    /\ Cardinality(in_progress) + Cardinality(queued_outputs)
         < meta_fetch_concurrency
    /\ pulled' = pulled + 1
    /\ in_progress' = in_progress \cup {pulled + 1}
    /\ UNCHANGED <<objects, meta_fetch_concurrency, queued_outputs,
                   completion_order, schemas, inferred, ipc>>
    /\ UNCHANGED <<hdrVars, kernelVars, bufferVars, scanVars, joinVars>>

\* a running spec.infer_schema completes, in any order
CompleteInference ==
    /\ ipc = "collecting"
    /\ \E i \in in_progress :
         /\ in_progress' = in_progress \ {i}
         /\ queued_outputs' = queued_outputs \cup {i}
         /\ completion_order' = Append(completion_order, i)
    /\ UNCHANGED <<objects, meta_fetch_concurrency, pulled, schemas,
                   inferred, ipc>>
    /\ UNCHANGED <<hdrVars, kernelVars, bufferVars, scanVars, joinVars>>

\* buffered yields the outputs in the order of the list; try_collect pushes
\* an Ok pair and returns at the first Err (line 132)
CollectOutput ==
    /\ ipc = "collecting"
    /\ Len(schemas) + 1 \in queued_outputs
    /\ LET i == Len(schemas) + 1 IN
       /\ queued_outputs' = queued_outputs \ {i}
       /\ IF objects[i].answer.tag = "Ok"
          THEN /\ schemas' = Append(schemas,
                      [location |-> objects[i].location,
                       schema |-> objects[i].answer.val])
               /\ UNCHANGED <<inferred, ipc, in_progress>>
          ELSE /\ inferred' = objects[i].answer
               /\ ipc' = "returned"
               /\ in_progress' = {}
               /\ UNCHANGED schemas
    /\ UNCHANGED <<objects, meta_fetch_concurrency, pulled, completion_order>>
    /\ UNCHANGED <<hdrVars, kernelVars, bufferVars, scanVars, joinVars>>

\* the stream is exhausted: lines 134-142
ReturnSchema ==
    /\ ipc = "collecting"
    /\ meta_fetch_concurrency > 0
    /\ pulled = Len(objects) /\ in_progress = {} /\ queued_outputs = {}
    /\ inferred' = SortAndMerge(schemas)
    /\ ipc' = "returned"
    /\ UNCHANGED <<objects, meta_fetch_concurrency, pulled, in_progress,
                   queued_outputs, completion_order, schemas>>
    /\ UNCHANGED <<hdrVars, kernelVars, bufferVars, scanVars, joinVars>>

InferNext ==
    \/ StartInference
    \/ CompleteInference
    \/ CollectOutput
    \/ ReturnSchema

(***************************************************************************)
(* format.rs: SedonaFileSource and SimpleOpener.                           *)
(* A source and an opener are records of their fields; the spec, the       *)
(* store, a schema, a statistics value and a filter expression are names.  *)
(***************************************************************************)
MaxCalls == 2
MaxBatches == 2

\* SedonaFileSource::new
SedonaFileSource_new(spec) ==
    [spec |-> spec,
     batch_size |-> None,
     file_schema |-> None,
     file_projection |-> None,
     filters |-> None,
     metrics |-> "ExecutionPlanMetricsSet::default()",
     projected_statistics |-> None]

\* SedonaFileSource::with_batch_size
with_batch_size(self, batch_size) ==
    [self EXCEPT !.batch_size = Some(batch_size)]
\* a mutation: the source is rebuilt from its spec and the schema
with_schema_FromNew(self, schema) ==
    [SedonaFileSource_new(self.spec) EXCEPT !.file_schema = Some(schema)]
\* SedonaFileSource::with_schema
with_schema(self, schema) ==
    [self EXCEPT !.file_schema = Some(schema)]
\* SedonaFileSource::with_projection
with_projection(self, config) ==
    [self EXCEPT !.file_projection = config.file_column_projection_indices]
\* SedonaFileSource::with_statistics
with_statistics(self, statistics) ==
    [self EXCEPT !.projected_statistics = Some(statistics)]
\* a mutation: every filter is reported as pushed down
try_pushdown_filters_Yes(self, filters) ==
    Ok([filters |-> [i \in 1..Len(filters) |-> "Yes"],
        updated_node |-> Some([self EXCEPT !.filters = Some(filters)])])
\* SedonaFileSource::try_pushdown_filters: the parent pushdown results and
\* the updated node
try_pushdown_filters(self, filters) ==
    Ok([filters |-> [i \in 1..Len(filters) |-> "No"],
        updated_node |-> Some([self EXCEPT !.filters = Some(filters)])])
\* SedonaFileSource::create_file_opener
create_file_opener(self, store, base_config, partition) ==
    [spec |-> self.spec,
     args |-> [src |-> [store |-> store,
                        url |-> Some(base_config.object_store_url),
                        meta |-> None],
               batch_size |-> self.batch_size,
               file_schema |-> self.file_schema,
               file_projection |-> self.file_projection,
               filters |-> self.filters],
     partition |-> partition]

\* a mutation: the opener opens whatever its partition is
SimpleOpener_open_AnyPartition(self, file_meta) ==
    Ok([self_clone |-> self, file_meta |-> file_meta])
\* SimpleOpener::open, lines 324-329: the internal error, or the future
\* that owns a clone of the opener and the file
SimpleOpener_open(self, file_meta) ==
    IF self.partition # 0
    THEN Err(<<"SedonaDB internal error: ",
               "Expected SimpleOpener to open a single partition">>)
    ELSE Ok([self_clone |-> self, file_meta |-> file_meta])
\* line 330: self_clone.args.src.meta.replace(file_meta.object_meta)
replace_meta(self_clone, file_meta) ==
    [self_clone EXCEPT !.args.src.meta = Some(file_meta.object_meta)]

\* a record batch of some rows, the error of a reader
RecordBatch(id, num_rows) == <<"RecordBatch", id, num_rows>>
ArrowError(msg) == <<"ArrowError", msg>>
\* batch.map_err(Into::into): From<ArrowError> for DataFusionError
map_err(batch) ==
    IF batch.tag = "Ok" THEN batch
    ELSE Err(<<"DataFusionError::ArrowError", batch.val, None>>)
\* a mutation: the stream ends at the first error of the reader
stream_next_EndAtError(next) ==
    IF next = None THEN None
    ELSE IF next[1].tag = "Err" THEN None
    ELSE Some(map_err(next[1]))
\* lines 332-333: stream::iter(reader.into_iter().map(..)) polled once, with
\* what the reader's next() gave: an item, or None at its end
stream_next(next) ==
    IF next = None THEN None ELSE Some(map_err(next[1]))

\* The values the calls are made with.
TheSpec == "EchoSpec"
TheStore == "LocalFileSystem"
BaseConfig(projection) ==
    [object_store_url |-> "file://",
     file_column_projection_indices |-> projection]
BatchSizes == {1024, 8192}
FileSchemas == {"schema1", "schema2"}
Projections == {None, Some(<<1, 0>>)}
StatisticsValues == {"statistics1", "statistics2"}
FilterLists == {<<>>, <<"filter1">>, <<"filter2", "filter1">>}
Partitions == {0, 1}
\* the two files of the test
FileMeta(location) == [object_meta |-> [location |-> location, size |-> 9]]
FileMetas == {FileMeta("item0.echospec"), FileMeta("item1.echospec")}
ReaderItems ==
    {Ok(RecordBatch(1, 1)), Ok(RecordBatch(2, 3)), Err(ArrowError("e1"))}

NoPropagation == Err(<<"not called">>)
NoOpener == create_file_opener(SedonaFileSource_new("none"), "none",
                               BaseConfig(None), 0)
NotOpened == Err(<<"not opened">>)
Call(op, self, arg) == [op |-> op, self |-> self, arg |-> arg]
LastSource == sources[Len(sources)]

ScanIdle ==
    /\ sources = <<>> /\ calls = <<>> /\ propagation = NoPropagation
    /\ opener = NoOpener /\ opens = <<>> /\ open_reader_calls = <<>>
    /\ open_future = None /\ reader_returned = <<>>
    /\ open_result = NotOpened /\ stream_out = <<>> /\ spc = "idle"

\* RecordBatchReaderFormat::file_source (line 183)
ScanInit ==
    /\ sources = <<SedonaFileSource_new(TheSpec)>>
    /\ calls = <<>> /\ propagation = NoPropagation
    /\ opener = NoOpener /\ opens = <<>> /\ open_reader_calls = <<>>
    /\ open_future = None /\ reader_returned = <<>>
    /\ open_result = NotOpened /\ stream_out = <<>> /\ spc = "source"

OpenerUnchanged ==
    UNCHANGED <<opener, opens, open_reader_calls, open_future,
                reader_returned, open_result, stream_out, spc>>

WithBatchSize ==
    /\ spc = "source" /\ Len(calls) < MaxCalls
    /\ \E batch_size \in BatchSizes :
         /\ sources' = Append(sources, with_batch_size(LastSource, batch_size))
         /\ calls' = Append(calls, Call("with_batch_size", LastSource,
                                        Some(batch_size)))
    /\ UNCHANGED propagation /\ OpenerUnchanged
    /\ UNCHANGED <<hdrVars, kernelVars, bufferVars, inferVars, joinVars>>

WithSchema ==
    /\ spc = "source" /\ Len(calls) < MaxCalls
    /\ \E schema \in FileSchemas :
         /\ sources' = Append(sources, with_schema(LastSource, schema))
         /\ calls' = Append(calls, Call("with_schema", LastSource, Some(schema)))
    /\ UNCHANGED propagation /\ OpenerUnchanged
    /\ UNCHANGED <<hdrVars, kernelVars, bufferVars, inferVars, joinVars>>

WithProjection ==
    /\ spc = "source" /\ Len(calls) < MaxCalls
    /\ \E projection \in Projections :
         /\ sources' = Append(sources,
                          with_projection(LastSource, BaseConfig(projection)))
         /\ calls' = Append(calls, Call("with_projection", LastSource, projection))
    /\ UNCHANGED propagation /\ OpenerUnchanged
    /\ UNCHANGED <<hdrVars, kernelVars, bufferVars, inferVars, joinVars>>

WithStatistics ==
    /\ spc = "source" /\ Len(calls) < MaxCalls
    /\ \E statistics \in StatisticsValues :
         /\ sources' = Append(sources, with_statistics(LastSource, statistics))
         /\ calls' = Append(calls, Call("with_statistics", LastSource,
                                        Some(statistics)))
    /\ UNCHANGED propagation /\ OpenerUnchanged
    /\ UNCHANGED <<hdrVars, kernelVars, bufferVars, inferVars, joinVars>>

\* the updated node is the source the planner goes on with
TryPushdownFilters ==
    /\ spc = "source" /\ Len(calls) < MaxCalls
    /\ \E filters \in FilterLists :
         LET r == try_pushdown_filters(LastSource, filters) IN
         /\ propagation' = r
         /\ sources' = Append(sources, r.val.updated_node[1])
         /\ calls' = Append(calls, Call("try_pushdown_filters", LastSource,
                                        Some(filters)))
    /\ OpenerUnchanged
    /\ UNCHANGED <<hdrVars, kernelVars, bufferVars, inferVars, joinVars>>

CreateFileOpener ==
    /\ spc = "source"
    /\ \E partition \in Partitions :
         opener' = create_file_opener(LastSource, TheStore, BaseConfig(None),
                                      partition)
    /\ spc' = "opener"
    /\ UNCHANGED <<sources, calls, propagation, opens, open_reader_calls,
                   open_future, reader_returned, open_result, stream_out>>
    /\ UNCHANGED <<hdrVars, kernelVars, bufferVars, inferVars, joinVars>>

\* SimpleOpener::open returns; the body of the future has not run.  A file
\* is opened once.
Open ==
    /\ spc \in {"opener", "ended", "failed"}
    /\ \E file_meta \in FileMetas :
         LET r == SimpleOpener_open(opener, file_meta) IN
         /\ \A k \in 1..Len(opens) : opens[k] # file_meta
         /\ opens' = Append(opens, file_meta)
         /\ IF r.tag = "Ok"
            THEN /\ open_future' = Some(r.val)
                 /\ open_result' = Ok(<<"FileOpenFuture">>)
                 /\ spc' = "opening"
            ELSE /\ open_future' = None
                 /\ open_result' = r
                 /\ spc' = "failed"
    /\ reader_returned' = <<>> /\ stream_out' = <<>>
    /\ UNCHANGED <<sources, calls, propagation, opener, open_reader_calls>>
    /\ UNCHANGED <<hdrVars, kernelVars, bufferVars, inferVars, joinVars>>

\* the future is awaited (lines 330-334): spec.open_reader answers a reader
\* or an error
AwaitOpen ==
    /\ spc = "opening"
    /\ LET self_clone == replace_meta(open_future[1].self_clone,
                                      open_future[1].file_meta)
       IN
       /\ open_reader_calls' = Append(open_reader_calls, self_clone.args)
       /\ \E ok \in BOOLEAN :
            IF ok
            THEN /\ open_result' = Ok(<<"stream">>)
                 /\ spc' = "streaming"
            ELSE /\ open_result' = Err(<<"open_reader failed">>)
                 /\ spc' = "failed"
    /\ open_future' = None
    /\ reader_returned' = <<>> /\ stream_out' = <<>>
    /\ UNCHANGED <<sources, calls, propagation, opener, opens>>
    /\ UNCHANGED <<hdrVars, kernelVars, bufferVars, inferVars, joinVars>>

\* the engine polls the batch stream: the reader gives its next item, or
\* None at its end (after at most MaxBatches items)
PollStream ==
    /\ spc = "streaming"
    /\ \E next \in {None} \cup {Some(batch) : batch \in ReaderItems} :
         LET polled == stream_next(next) IN
         /\ next # None => Len(reader_returned) < MaxBatches
         /\ reader_returned' = IF next = None THEN reader_returned
                                ELSE Append(reader_returned, next[1])
         /\ IF polled = None
            THEN spc' = "ended" /\ UNCHANGED stream_out
            ELSE spc' = spc /\ stream_out' = Append(stream_out, polled[1])
    /\ UNCHANGED <<sources, calls, propagation, opener, opens,
                   open_reader_calls, open_future, open_result>>
    /\ UNCHANGED <<hdrVars, kernelVars, bufferVars, inferVars, joinVars>>

ScanNext ==
    \/ WithBatchSize
    \/ WithSchema
    \/ WithProjection
    \/ WithStatistics
    \/ TryPushdownFilters
    \/ CreateFileOpener
    \/ Open
    \/ AwaitOpen
    \/ PollStream

(***************************************************************************)
(* in_mem.rs: InMemoryBuildSideBatchStream.  A batch is its name.          *)
(***************************************************************************)
MaxBuildBatches == 3
MaxPolls == 5

\* InMemoryBuildSideBatchStream::new
InMemoryBuildSideBatchStream_new(bs) == [batches |-> bs]
\* BuildSideBatchStream::is_external
is_external(self) == FALSE
\* a mutation: the batch at the back of the queue is taken
poll_next_PopBack(self) ==
    IF self.batches = <<>>
    THEN [self |-> self, poll |-> [tag |-> "Ready", val |-> None]]
    ELSE [self |-> [batches |-> SubSeq(self.batches, 1, Len(self.batches) - 1)],
          poll |-> [tag |-> "Ready",
                    val |-> Some(Ok(self.batches[Len(self.batches)]))]]
\* Stream::poll_next: pop_front, then Ready(Some(Ok(batch))) or Ready(None)
poll_next(self) ==
    IF self.batches = <<>>
    THEN [self |-> self, poll |-> [tag |-> "Ready", val |-> None]]
    ELSE [self |-> [batches |-> Tail(self.batches)],
          poll |-> [tag |-> "Ready", val |-> Some(Ok(Head(self.batches)))]]

BuildSideBatches == {"batch1", "batch2", "batch3"}
NotCalled == "not called"

JoinIdle ==
    /\ built_from = <<>> /\ batches = <<>> /\ polls = <<>>
    /\ is_external_ret = NotCalled /\ jpc = "idle"

JoinInit ==
    /\ built_from \in SeqsUpTo(BuildSideBatches, MaxBuildBatches)
    /\ batches = InMemoryBuildSideBatchStream_new(built_from).batches
    /\ polls = <<>>
    /\ is_external_ret = NotCalled /\ jpc = "stream"

PollNext ==
    /\ jpc = "stream" /\ Len(polls) < MaxPolls
    /\ LET r == poll_next([batches |-> batches]) IN
       /\ batches' = r.self.batches
       /\ polls' = Append(polls, r.poll)
    /\ UNCHANGED <<built_from, is_external_ret, jpc>>
    /\ UNCHANGED <<hdrVars, kernelVars, bufferVars, inferVars, scanVars>>

IsExternal ==
    /\ jpc = "stream"
    /\ is_external_ret' = IF is_external([batches |-> batches])
                          THEN "true" ELSE "false"
    /\ UNCHANGED <<built_from, batches, polls, jpc>>
    /\ UNCHANGED <<hdrVars, kernelVars, bufferVars, inferVars, scanVars>>

JoinNext ==
    \/ PollNext
    \/ IsExternal

(***************************************************************************)
(* The specifications: Spec reads one slice with the header reader,        *)
(* SpecEndpoint runs one ST_StartPoint / ST_EndPoint batch, SpecBuffer     *)
(* plans and runs one ST_Buffer batch, SpecStyle parses one style string,  *)
(* SpecInfer runs one schema inference over a list of objects, SpecScan    *)
(* derives file sources, creates an opener and opens files, SpecJoin polls *)
(* one in-memory build-side stream.                                        *)
(***************************************************************************)
Init == HdrInit /\ KernelIdle /\ BufferIdle /\ InferIdle /\ ScanIdle /\ JoinIdle
Next == HdrNext
Spec == Init /\ [][Next]_vars

InitEndpoint == HdrIdle /\ KernelInit /\ BufferIdle /\ InferIdle /\ ScanIdle /\ JoinIdle
NextEndpoint == KernelNext
SpecEndpoint == InitEndpoint /\ [][NextEndpoint]_vars

InitBuffer == HdrIdle /\ KernelIdle /\ BufferInit /\ InferIdle /\ ScanIdle /\ JoinIdle
NextBuffer == BufferNext
SpecBuffer == InitBuffer /\ [][NextBuffer]_vars

InitStyle == HdrIdle /\ KernelIdle /\ StyleInit /\ InferIdle /\ ScanIdle /\ JoinIdle
NextStyle == StyleNext
SpecStyle == InitStyle /\ [][NextStyle]_vars

InitInfer == HdrIdle /\ KernelIdle /\ BufferIdle /\ InferInit /\ ScanIdle /\ JoinIdle
NextInfer == InferNext
SpecInfer == InitInfer /\ [][NextInfer]_vars

InitScan ==
    HdrIdle /\ KernelIdle /\ BufferIdle /\ InferIdle /\ ScanInit /\ JoinIdle
NextScan == ScanNext
SpecScan == InitScan /\ [][NextScan]_vars

InitJoin ==
    HdrIdle /\ KernelIdle /\ BufferIdle /\ InferIdle /\ ScanIdle /\ JoinInit
NextJoin == JoinNext
SpecJoin == InitJoin /\ [][NextJoin]_vars

(***************************************************************************)
(* Claims about the WKB header reader, checked under Spec.                 *)
(***************************************************************************)
\* the input is well-formed WKB without the EWKB SRID flag: its type code
\* is d * 1000 + t
PlainInput == geom.t \in 1..7 /\ IsPlainWkb(geom)
XYMatches(xy, expected) ==
    IF is_nan(expected[1]) THEN is_nan(xy[1]) /\ is_nan(xy[2])
    ELSE xy = expected

\* C1: for every byte slice try_new returns a header or an invalid-WKB error
\* value and never aborts; in particular a slice of 5 to 8 bytes whose type
\* is not Point, or whose SRID bit is set, yields an error value.
C1_TryNewNeverAborts ==
    pc = "built" =>
        /\ hdr.tag \in {"Ok", "Err"}
        /\ (/\ Len(buf) \in 5..8
            /\ buf[1] \in ByteOrders
            /\ LET code == read_u32(Slice(buf, 1, 5), buf[1]).val IN
               code % 8 # 1 \/ HasSridFlag(code))
           => hdr.tag = "Err"

\* C2: for every well-formed WKB with type code d*1000 + t, either byte
\* order, try_new succeeds, geometry_type_id() is type t and dimensions() is
\* XY, XYZ, XYM, XYZM for d = 0, 1, 2, 3.
C2_TypeAndDimensions ==
    (pc = "built" /\ PlainInput) =>
        /\ hdr.tag = "Ok"
        /\ WkbHeader_geometry_type_id(hdr.val) = Ok(GeometryTypeName[geom.t])
        /\ WkbHeader_dimensions(hdr.val) = Ok(GeomDimensions(geom))
        /\ ret.acc = "geometry_type_id" => ret.val = Ok(GeometryTypeName[geom.t])
        /\ ret.acc = "dimensions" => ret.val = Ok(GeomDimensions(geom))
\* a big-endian GEOMETRYCOLLECTION ZM with children, dimensions() was called
C2_Witness ==
    /\ pc = "built" /\ PlainInput /\ hdr.tag = "Ok"
    /\ geom.t = 7 /\ geom.d = 3 /\ geom.bo = 0 /\ Len(geom.kids) = MaxKids
    /\ ret.acc = "dimensions" /\ ret.val = Ok("Xyzm")

\* C3: for every well-formed WKB size() is 1 for a Point and otherwise the
\* count after the type code, read in the declared byte order (0 when empty).
C3_Size ==
    (pc = "built" /\ PlainInput) =>
        /\ hdr.tag = "Ok"
        /\ WkbHeader_size(hdr.val) = GeomSize(geom)
        /\ ret.acc = "size" => ret.val = GeomSize(geom)
\* a big-endian Polygon with MaxRings rings, size() was called
C3_Witness ==
    /\ pc = "built" /\ PlainInput /\ hdr.tag = "Ok"
    /\ geom.t = 3 /\ geom.bo = 0 /\ Len(geom.rings) = MaxRings
    /\ ret.acc = "size" /\ ret.val = MaxRings

\* C4: for every well-formed Point, LineString or Polygon first_xy() is the
\* first two floats of the first coordinate (ring 0's first coordinate for
\* a Polygon), and (NaN, NaN) when there is no first coordinate.
C4_FirstXY ==
    (pc = "built" /\ PlainInput /\ geom.t \in 1..3) =>
        /\ hdr.tag = "Ok"
        /\ XYMatches(WkbHeader_first_xy(hdr.val), LeafFirstXY(geom))
        /\ ret.acc = "first_xy" => XYMatches(ret.val, LeafFirstXY(geom))
\* a big-endian Polygon ZM with points in ring 0: first_xy() returned (1, 2)
C4_Witness ==
    /\ pc = "built" /\ PlainInput /\ hdr.tag = "Ok"
    /\ geom.t = 3 /\ geom.bo = 0 /\ geom.d = 3 /\ ~LeafIsEmpty(geom)
    /\ ret.acc = "first_xy" /\ ret.val = <<Num(1), Num(2)>>
\* POLYGON with a ring 0 of 0 points: first_xy() returned (NaN, NaN)
C4_WitnessEmptyRing ==
    /\ pc = "built" /\ PlainInput /\ hdr.tag = "Ok"
    /\ geom.t = 3 /\ geom.rings # <<>> /\ geom.rings[1] = 0
    /\ ret.acc = "first_xy" /\ is_nan(ret.val[1]) /\ is_nan(ret.val[2])

\* C5: dimensions() comes from the top-level type code and
\* first_geom_dimensions() from the first nested non-collection geometry: for
\* a collection flagged XY whose first child is a Point flagged XYZ, XYM or
\* XYZM, dimensions() is XY, first_geom_dimensions() is the child's dimension
\* and first_xy() is the child's first coordinate.
C5_TopLevelVersusFirstGeom ==
    (/\ pc = "built" /\ PlainInput
     /\ geom.t \in 4..7 /\ geom.d = 0 /\ geom.kids # <<>>
     /\ geom.kids[1].t = 1 /\ geom.kids[1].d \in 1..3) =>
        /\ hdr.tag = "Ok"
        /\ WkbHeader_dimensions(hdr.val) = Ok("Xy")
        /\ WkbHeader_first_geom_dimensions(hdr.val)
             = Some(GeomDimensions(geom.kids[1]))
        /\ XYMatches(WkbHeader_first_xy(hdr.val), LeafFirstXY(geom.kids[1]))
\* the fixture MULTIPOINT_WITH_INFERRED_Z_DIMENSION_WKB was read
C5_Witness ==
    /\ pc = "built" /\ hdr.tag = "Ok"
    /\ buf = MULTIPOINT_WITH_INFERRED_Z_DIMENSION_WKB
    /\ geom = FixtureGeom
    /\ ret.acc = "first_geom_dimensions" /\ ret.val = Some("Xyz")

\* C6: for every well-formed Multi* / GeometryCollection that contains a
\* Point, LineString or Polygon at any depth, first_geom_dimensions() is the
\* dimension of the first such descendant in encoding order and first_xy()
\* its first coordinate, also when an earlier sibling or the first child is an
\* empty collection.
C6_FirstDescendant ==
    (/\ pc = "built" /\ PlainInput
     /\ geom.t \in 4..7 /\ FirstLeaf(geom) # None) =>
        /\ hdr.tag = "Ok"
        /\ WkbHeader_first_geom_dimensions(hdr.val)
             = Some(GeomDimensions(FirstLeaf(geom)[1]))
        /\ XYMatches(WkbHeader_first_xy(hdr.val), LeafFirstXY(FirstLeaf(geom)[1]))

\* C7: for every Multi* / GeometryCollection with count 0, any dimension
\* flag, try_new succeeds with size() = 0, first_geom_dimensions() = None and
\* first_xy() = (NaN, NaN); for an empty Point, LineString or Polygon
\* first_geom_dimensions() is Some(the geometry's own dimension).
C7_EmptyGeometries ==
    /\ (pc = "built" /\ geom.t \in 4..7 /\ geom.kids = <<>>) =>
        /\ hdr.tag = "Ok"
        /\ WkbHeader_size(hdr.val) = 0
        /\ WkbHeader_first_geom_dimensions(hdr.val) = None
        /\ is_nan(WkbHeader_first_xy(hdr.val)[1])
        /\ is_nan(WkbHeader_first_xy(hdr.val)[2])
    /\ (pc = "built" /\ PlainInput /\ geom.t \in 1..3 /\ LeafIsEmpty(geom)) =>
        /\ hdr.tag = "Ok"
        /\ WkbHeader_first_geom_dimensions(hdr.val) = Some(GeomDimensions(geom))
\* LINESTRING ZM EMPTY: first_geom_dimensions() returned Some(XYZM)
C7_Witness ==
    /\ pc = "built" /\ PlainInput /\ hdr.tag = "Ok"
    /\ geom.t = 2 /\ geom.n = 0 /\ geom.d = 3
    /\ ret.acc = "first_geom_dimensions" /\ ret.val = Some("Xyzm")
\* MULTIPOLYGON M EMPTY: first_geom_dimensions() returned None
C7_WitnessCollection ==
    /\ pc = "built" /\ PlainInput /\ hdr.tag = "Ok"
    /\ geom.t = 6 /\ geom.kids = <<>> /\ geom.d = 2
    /\ ret.acc = "first_geom_dimensions" /\ ret.val = None

\* C8: when the SRID bit is set and the rest of the geometry is well formed,
\* try_new succeeds, srid() is the value after the type code, and the count,
\* the first nested geometry and the first coordinate are read from after the
\* SRID; when the bit is clear srid() is 0.
C8_Srid ==
    /\ (pc = "built" /\ geom.t \in 1..7 /\ geom.srid # None) =>
        /\ hdr.tag = "Ok"
        /\ WkbHeader_srid(hdr.val) = geom.srid[1]
        /\ WkbHeader_size(hdr.val) = GeomSize(geom)
        /\ FirstLeaf(geom) # None =>
             /\ WkbHeader_first_geom_dimensions(hdr.val)
                  = Some(GeomDimensions(FirstLeaf(geom)[1]))
             /\ XYMatches(WkbHeader_first_xy(hdr.val),
                          LeafFirstXY(FirstLeaf(geom)[1]))
    /\ (pc = "built" /\ PlainInput /\ hdr.tag = "Ok") =>
        WkbHeader_srid(hdr.val) = 0

\* C9: for every header returned by a successful try_new, geometry_type_id()
\* and dimensions() return a value and never an error, and every accessor
\* returns the same value on every call.
AccessorValue(self, acc) ==
    IF acc = "geometry_type_id" THEN WkbHeader_geometry_type_id(self)
    ELSE IF acc = "size" THEN WkbHeader_size(self)
    ELSE IF acc = "srid" THEN WkbHeader_srid(self)
    ELSE IF acc = "first_xy" THEN WkbHeader_first_xy(self)
    ELSE IF acc = "dimensions" THEN WkbHeader_dimensions(self)
    ELSE WkbHeader_first_geom_dimensions(self)
C9_AccessorsTotalAndStable ==
    Built =>
        /\ WkbHeader_geometry_type_id(hdr.val).tag = "Ok"
        /\ WkbHeader_dimensions(hdr.val).tag = "Ok"
        /\ ret.acc # "none" => ret.val = AccessorValue(hdr.val, ret.acc)

\* the generator writes the fixture's bytes for the fixture's structure
FixtureBytesAgree == make_wkb(FixtureGeom) = MULTIPOINT_WITH_INFERRED_Z_DIMENSION_WKB

\* buf is a MULTI* or GEOMETRYCOLLECTION with a readable count above 0
CollectionWithChildren(b) ==
    /\ Len(b) >= 5 /\ b[1] \in ByteOrders
    /\ LET geometry_type == read_u32(Slice(b, 1, 5), b[1]).val
           i == NestedOffset(geometry_type)
       IN /\ geometry_type % 8 \in 4..7
          /\ Len(b) >= i
          /\ read_u32(Slice(b, i - 4, i), b[1]).val > 0
\* the bytes after the count
BytesAfterCount(b) ==
    SliceFrom(b, NestedOffset(read_u32(Slice(b, 1, 5), b[1]).val))
\* fewer than 5 bytes, a byte order other than 0 / 1, or a type code whose
\* base type is none of 1..7
MalformedHeader(b) ==
    \/ Len(b) < 5
    \/ b[1] \notin ByteOrders
    \/ read_u32(Slice(b, 1, 5), b[1]).val % 8 \notin 1..7

\* C26: for a MULTI* or GEOMETRYCOLLECTION with count > 0 whose bytes after
\* the count are not a well-formed geometry header (fewer than 5 bytes, a
\* byte order other than 0 / 1, a type code outside 1..7), try_new fails
\* with an invalid-WKB error and does not return a header that reports no
\* first geometry.
C26_MalformedChildRejected ==
    (pc = "built" /\ CollectionWithChildren(buf)
                  /\ MalformedHeader(BytesAfterCount(buf))) =>
        hdr.tag = "Err"

(***************************************************************************)
(* Claims about the endpoint kernel, checked under SpecEndpoint.           *)
(***************************************************************************)
RowProcessed == kpc \in {"running", "done", "panic"} /\ cur # NoRow

\* C10: for every row of an ST_StartPoint / ST_EndPoint batch a null input
\* gives a null output, and an input that is not a LINESTRING (POINT,
\* POLYGON, MULTI*, GEOMETRYCOLLECTION, in any dimension) gives a null output
\* without an error; the output array has one entry per input row.
C10_NullAndNonLineString ==
    /\ (RowProcessed /\ (cur.wkb = None \/ cur.geom.t \in {1, 3, 4, 5, 6, 7})) =>
        /\ kpc # "panic"
        /\ Len(builder) = row
        /\ builder[row] = None
    /\ kpc \in {"running", "done"} => Len(builder) = row
    /\ kpc = "done" => Len(builder) = num_iterations
\* a finished batch of MaxRows rows whose last row was a MULTILINESTRING ZM
C10_Witness ==
    /\ kpc = "done" /\ num_iterations = MaxRows /\ MaxRows > 0
    /\ cur.wkb # None /\ cur.geom.t = 5 /\ cur.geom.d = 3
    /\ Len(builder) = MaxRows /\ builder[MaxRows] = None

\* the POINT a LINESTRING's endpoint is: byte order bo, type code d*1000 + 1,
\* then the first (start) or last (end) coordinate tuple
EndpointPoint(g, fs, bo) ==
    <<bo>> \o U32Bytes(g.d * 1000 + 1, bo)
    \o TupleBytes(CoordTuple(g.d, IF fs THEN g.c0 ELSE g.c0 + g.n - 1), bo)

\* C11: for every well-formed non-empty little-endian LINESTRING of dimension
\* XY, XYZ, XYM or XYZM the kernel appends a little-endian POINT of the same
\* dimension (type code 1, 1001, 2001, 3001) holding the first coordinate
\* tuple (ST_StartPoint) or the last one (ST_EndPoint).
C11_EndpointBytes ==
    (/\ RowProcessed /\ cur.wkb # None
     /\ cur.geom.t = 2 /\ cur.geom.bo = 1 /\ cur.geom.n >= 1) =>
        /\ kpc # "panic"
        /\ Len(builder) = row
        /\ builder[row] = Some(EndpointPoint(cur.geom, from_start, 1))

\* C12: for a non-empty LINESTRING in either byte order the kernel appends a
\* non-null POINT whose byte-order byte is the input's and whose coordinate
\* bytes are the input's, unchanged.
C12_ByteOrderRoundTrip ==
    (/\ RowProcessed /\ cur.wkb # None
     /\ cur.geom.t = 2 /\ cur.geom.n >= 1) =>
        /\ kpc # "panic"
        /\ Len(builder) = row
        /\ builder[row] # None
        /\ builder[row][1][1] = cur.geom.bo
        /\ SliceFrom(builder[row][1], DstOffset)
             = SliceFrom(EndpointPoint(cur.geom, from_start, cur.geom.bo), DstOffset)

\* C13: for every non-null WKB row, LINESTRING EMPTY and linestrings shorter
\* than 9 + stride bytes included, the kernel finishes the row with a value
\* or a null; it never reads outside the input and never aborts.
C13_ShortLineStringSafe ==
    (RowProcessed /\ cur.wkb # None) =>
        /\ kpc # "panic"
        /\ Len(builder) = row

\* what the closure appends for a row when it runs on a freshly allocated
\* item: the output that depends on the row alone
OutputOfRowAlone(r, fs) ==
    LET e == EndpointOfWkb(ItemInit, r.wkb[1], fs) IN
    IF e.tag = "Value" THEN Some(e.val) ELSE None

\* C27: in every ST_StartPoint / ST_EndPoint batch the output of a row
\* depends only on the input of that row, and for every LINESTRING row of
\* dimension D for which a POINT is appended the four type-code bytes of
\* the POINT are the POINT code of D (1, 1001, 2001, 3001), whatever the
\* rows before it were.
C27_RowIndependence ==
    (RowProcessed /\ cur.wkb # None /\ kpc # "panic") =>
        /\ Len(builder) = row
        /\ builder[row] = OutputOfRowAlone(cur, from_start)
        /\ (cur.geom.t = 2 /\ builder[row] # None) =>
              Slice(builder[row][1], 1, 5)
                = U32Bytes(cur.geom.d * 1000 + 1, builder[row][1][1])

(***************************************************************************)
(* Claims about the ST_Buffer kernels, checked under SpecBuffer.           *)
(***************************************************************************)
\* return_type was asked of both kernels
Planned == matched # <<>>
GeometryTypes == {WKB_GEOMETRY, WKB_VIEW_GEOMETRY}
NumericTypes == {"Float64", "Int32"}
\* the argument lists ST_Buffer is documented to accept
DocumentedArgLists ==
    {<<g, "Float64">> : g \in GeometryTypes}
    \cup {<<g, "Float64", "Utf8">> : g \in GeometryTypes}
    \cup {<<g, "Float64", "Boolean">> : g \in GeometryTypes}
    \cup {<<g, "Float64", "Boolean", "Utf8">> : g \in GeometryTypes}

\* C14: for each of (geometry, distance), (geometry, distance, styleParams:
\* string), (geometry, distance, useSpheroid: bool) and (geometry, distance,
\* useSpheroid: bool, styleParams: string) some ST_Buffer kernel's
\* return_type reports a geometry return type.
C14_AcceptedArgumentLists ==
    (Planned /\ arg_types \in DocumentedArgLists) =>
        \E i \in 1..Len(matched) : matched[i] = Ok(Some(WKB_GEOMETRY))

\* C15: the two-argument kernel returns WKB_GEOMETRY exactly for (geometry,
\* numeric) and the style kernel exactly for (geometry, numeric, string),
\* the geometry being WKB_GEOMETRY or WKB_VIEW_GEOMETRY; every other
\* argument list yields no match (None) and never an error.
C15_PositionalArityExact ==
    Planned =>
        /\ matched[1] =
             (IF arg_types \in {<<g, x>> : g \in GeometryTypes, x \in NumericTypes}
              THEN Ok(Some(WKB_GEOMETRY)) ELSE Ok(None))
        /\ matched[2] =
             (IF arg_types \in {<<g, x, "Utf8">> :
                                   g \in GeometryTypes, x \in NumericTypes}
              THEN Ok(Some(WKB_GEOMETRY)) ELSE Ok(None))
\* (WKB_VIEW_GEOMETRY, Int32, Utf8): the style kernel matches, the
\* two-argument kernel does not
C15_Witness ==
    /\ Planned /\ arg_types = <<WKB_VIEW_GEOMETRY, "Int32", "Utf8">>
    /\ matched[1] = Ok(None) /\ matched[2] = Ok(Some(WKB_GEOMETRY))
\* (WKB_GEOMETRY, Float64): the two-argument kernel matches, the style kernel
\* does not
C15_WitnessTwoArguments ==
    /\ Planned /\ arg_types = <<WKB_GEOMETRY, "Float64">>
    /\ matched[1] = Ok(Some(WKB_GEOMETRY)) /\ matched[2] = Ok(None)

\* the batch got past the argument extraction with usable parameters
BatchRunning == bpc \in {"running", "done"} \/ (bpc = "failed" /\ params.tag = "Ok")

\* C16: for every ST_Buffer batch with a valid or absent style string and
\* every row: if the geometry or the distance of the row is null the output
\* row is null, the geometry library is not called for the row and the row
\* does not fail the batch; a finished batch has num_iterations output rows,
\* and a scalar distance is presented identically at every row.
C16_NullRows ==
    BatchRunning =>
        /\ (b_row > 0 /\ (b_cur.wkb = None \/ b_cur.distance = None)) =>
              /\ bpc # "failed"
              /\ Len(b_builder) = b_row
              /\ b_builder[b_row] = None
              /\ b_row \notin geos_calls
        /\ \A i \in 1..Len(b_builder) :
              /\ b_builder[i] = None <=> i \notin geos_calls
              /\ distance_value[i] = None => b_builder[i] = None
        /\ bpc = "done" => Len(b_builder) = b_num_iterations
        /\ Len(distance_value) = b_num_iterations
        /\ distance_arg.kind = "Scalar" =>
              \A i \in 1..b_num_iterations : distance_value[i] = distance_arg.val
\* a finished batch of MaxRows rows with a style string and a scalar distance
\* whose last geometry was null and whose first row was buffered
C16_Witness ==
    /\ bpc = "done" /\ b_num_iterations = MaxRows /\ MaxRows > 1
    /\ buffer_style_params # None /\ distance_arg = Scalar(Some(2))
    /\ b_cur.wkb = None /\ b_builder[MaxRows] = None /\ 1 \in geos_calls
\* a row with a geometry and a null distance in a distance column
C16_WitnessNullDistance ==
    /\ bpc = "running" /\ b_row > 0 /\ distance_arg.kind = "Array"
    /\ b_cur.wkb # None /\ b_cur.distance = None
    /\ b_builder[b_row] = None /\ geos_calls = {}

\* the batch got past the planning: invoke_batch_impl has been called
BatchInvoked == bpc \in {"running", "done", "failed"}
\* the style strings of the batches that parse_buffer_params rejects
InvalidBatchStyles ==
    {JoinTokens(<<Tok("endcap", "wrong"), Tok("join", "mitre")>>, FALSE),
     JoinTokens(<<Tok("endcap", "round"), <<"bare_param">>,
                  Tok("join", "mitre")>>, FALSE)}

\* C28: in an ST_Buffer batch the style string is parsed once, before any
\* row: every row is evaluated with the parameters of that one parse; when
\* the parse fails the batch returns the parse error, no row is evaluated
\* and the geometry library is never called, also for a batch of zero rows
\* or of null rows only.
C28_StyleParsedBeforeRows ==
    /\ (BatchInvoked /\ (b_row > 0 \/ bpc \in {"running", "done"})) =>
          /\ params.tag = "Ok"
          /\ params = parse_buffer_params(buffer_style_params)
    /\ (BatchInvoked /\ style_arg.kind = "Scalar"
                     /\ \E st \in InvalidBatchStyles : style_arg.val = Some(st)) =>
          /\ bpc = "failed"
          /\ params.tag = "Err"
          /\ params = parse_buffer_params(style_arg.val)
          /\ b_row = 0 /\ geos_calls = {} /\ b_builder = <<>>
    /\ geos_calls # {} => params.tag = "Ok"
\* a batch of zero rows with the style "endcap=wrong join=mitre"
C28_Witness ==
    /\ bpc = "failed" /\ b_num_iterations = 0
    /\ style_arg = Scalar(Some(JoinTokens(<<Tok("endcap", "wrong"),
                                             Tok("join", "mitre")>>, FALSE)))
    /\ params = Err(<<"Invalid endcap style: '", <<"wrong">>,
                      "'. Valid options: round, flat, butt, square">>)
    /\ geos_calls = {} /\ b_row = 0
\* a batch of MaxRows rows whose distances are all null, with a style
\* string holding a parameter without "="
C28_WitnessNullRows ==
    /\ bpc = "failed" /\ b_num_iterations = MaxRows /\ MaxRows > 0
    /\ distance_arg = Scalar(None)
    /\ \E st \in InvalidBatchStyles : style_arg = Scalar(Some(st))
    /\ params.tag = "Err" /\ params.val[1] # "Invalid endcap style: '"
    /\ geos_calls = {} /\ b_row = 0 /\ b_builder = <<>>

(***************************************************************************)
(* Claims about parse_buffer_params, checked under SpecStyle.              *)
(***************************************************************************)
Parsed == bpc = "parsed" /\ buffer_style_params # None
\* what a valid token sets, read off the documented parameter list
FieldOfKey(k) ==
    CASE k \in {"endcap", "ENDCAP"} -> "end_cap_style"
      [] k \in {"join", "Join"} -> "join_style"
      [] k \in {"side", "SIDE"} -> "single_sided"
      [] k \in {"mitre_limit", "miter_limit"} -> "mitre_limit"
      [] k \in {"quad_segs", "quadrant_segments", "Quad_Segs"} -> "quadrant_segments"
ValueOfToken(tok) ==
    LET f == FieldOfKey(tok[1])
        v == tok[3]
    IN
    CASE f = "end_cap_style" ->
            (CASE v \in {"round", "ROUND"} -> "Round"
               [] v \in {"flat", "butt"} -> "Flat"
               [] v = "square" -> "Square")
      [] f = "join_style" ->
            (CASE v = "round" -> "Round"
               [] v \in {"mitre", "miter"} -> "Mitre"
               [] v \in {"bevel", "Bevel"} -> "Bevel")
      [] f = "single_sided" -> v \in {"left", "right", "LEFT"}
      [] f = "mitre_limit" -> (CASE v = "2.5" -> 25 [] v = "-5" -> -50)
      [] f = "quadrant_segments" ->
            (CASE v = "8" -> 8 [] v = "-5" -> -5 [] v = "5" -> 5)
\* the setting of field f after the tokens: unset, or what the last token
\* naming f says
LastSetting(toks, f) ==
    LET named == {i \in 1..Len(toks) : FieldOfKey(toks[i][1]) = f} IN
    IF named = {} THEN None
    ELSE Some(ValueOfToken(toks[CHOOSE i \in named : \A j \in named : j <= i]))
ExpectedParams(toks) ==
    [end_cap_style |-> LastSetting(toks, "end_cap_style"),
     join_style |-> LastSetting(toks, "join_style"),
     single_sided |-> LastSetting(toks, "single_sided"),
     mitre_limit |-> LastSetting(toks, "mitre_limit"),
     quadrant_segments |-> LastSetting(toks, "quadrant_segments")]
AllValid(toks) == \A i \in 1..Len(toks) : toks[i] \in ValidTokens
\* the position of the leftmost invalid token
FirstInvalid(toks) ==
    CHOOSE i \in 1..Len(toks) :
        toks[i] \in InvalidTokens /\ \A j \in 1..(i - 1) : toks[j] \in ValidTokens

\* C17: for a style string whose whitespace-separated tokens are all valid
\* key=value pairs, parse_buffer_params returns the defaults with each
\* setting replaced by what the last token naming it says; keys are matched
\* case-insensitively, a negative quad_segs is accepted.
C17_ValidStyleString ==
    (Parsed /\ AllValid(style_toks)) =>
        params = Ok(ExpectedParams(style_toks))
\* "endcap=flat ENDCAP=ROUND": the cap style is the last one given
C17_Witness ==
    /\ Parsed
    /\ style_toks = <<Tok("endcap", "flat"), Tok("ENDCAP", "ROUND")>>
    /\ params.tag = "Ok" /\ params.val.end_cap_style = Some("Round")
\* "quad_segs=-5" between blanks
C17_WitnessNegative ==
    /\ Parsed
    /\ style_toks = <<Tok("quad_segs", "-5")>>
    /\ buffer_style_params = Some(<<WS, "quad_segs", "=", "-5", WS>>)
    /\ params.tag = "Ok" /\ params.val.quadrant_segments = Some(-5)

\* C18: when a style string has invalid tokens, parse_buffer_params returns
\* the error of the leftmost one: what follows it does not change the error,
\* the valid tokens before it do not suppress it, and no parameters are
\* returned.
C18_FirstFailureWins ==
    (Parsed /\ ~AllValid(style_toks)) =>
        LET i == FirstInvalid(style_toks) IN
        /\ params.tag = "Err"
        /\ params = parse_buffer_params(Some(style_toks[i]))
        /\ params = parse_buffer_params(
                        Some(JoinTokens(SubSeq(style_toks, 1, i), FALSE)))
\* "endcap=wrong join=invalid": the endcap error, not the join error
C18_Witness ==
    /\ Parsed
    /\ style_toks = <<Tok("endcap", "wrong"), Tok("join", "invalid")>>
    /\ params = parse_cap_style(<<"wrong">>) /\ params.tag = "Err"

\* the message each invalid token is documented to fail with
AcceptedKeys ==
    " (accept: 'endcap', 'join', 'mitre_limit', 'miter_limit', 'quad_segs' and 'side')"
NumberError(name, v) ==
    <<"Invalid ", name, " value: '", v, "'. Expected a valid number">>
ExpectedError(tok) ==
    CASE tok = <<"bare_param">> ->
            <<"Missing value for buffer parameter: ", <<"bare_param">>>>
      [] tok = <<"endcap">> ->
            <<"Missing value for buffer parameter: ", <<"endcap">>>>
      [] tok = Tok("unknown_param", "value") ->
            <<"Invalid buffer parameter: ", <<"unknown_param">>, AcceptedKeys>>
      [] tok = Tok("Unknown_Param", "value") ->
            <<"Invalid buffer parameter: ", <<"unknown_param">>, AcceptedKeys>>
      [] tok = <<"=", "round">> ->
            <<"Invalid buffer parameter: ", <<>>, AcceptedKeys>>
      [] tok = Tok("endcap", "wrong") ->
            <<"Invalid endcap style: '", <<"wrong">>,
              "'. Valid options: round, flat, butt, square">>
      [] tok = <<"endcap", "=">> ->
            <<"Invalid endcap style: '", <<>>,
              "'. Valid options: round, flat, butt, square">>
      [] tok = <<"endcap", "=", "round", "=", "flat">> ->
            <<"Invalid endcap style: '", <<"round", "=", "flat">>,
              "'. Valid options: round, flat, butt, square">>
      [] tok = Tok("join", "invalid") ->
            <<"Invalid join style: '", <<"invalid">>,
              "'. Valid options: round, mitre, miter, bevel">>
      [] tok = Tok("side", "invalid") ->
            <<"Invalid side: '", <<"invalid">>,
              "'. Valid options: both, left, right">>
      [] tok = Tok("mitre_limit", "not_a_number") ->
            NumberError("mitre_limit", <<"not_a_number">>)
      [] tok = Tok("miter_limit", "abc") ->
            NumberError("mitre_limit", <<"abc">>)
      [] tok = Tok("quad_segs", "not_an_int") ->
            NumberError("quadrant_segments", <<"not_an_int">>)
      [] tok = Tok("quad_segs", "2.5") ->
            NumberError("quadrant_segments", <<"2.5">>)
      [] tok = Tok("quadrant_segments", "xyz") ->
            NumberError("quadrant_segments", <<"xyz">>)

\* C19: each invalid token fails with the error of its own class: Missing
\* value for a token without "=", Invalid buffer parameter with the
\* lowercased key for an unrecognized key, Invalid endcap style / join style
\* / side with the valid options for a bad value, Invalid mitre_limit value
\* (mitre_limit and miter_limit) and Invalid quadrant_segments value
\* (quad_segs and quadrant_segments) for an unparseable number.
C19_ErrorOfItsClass ==
    (Parsed /\ ~AllValid(style_toks)) =>
        params = Err(ExpectedError(style_toks[FirstInvalid(style_toks)]))
\* "endcap=round bare_param": Missing value for buffer parameter: bare_param
C19_Witness ==
    /\ Parsed
    /\ style_toks = <<Tok("endcap", "round"), <<"bare_param">>>>
    /\ params.tag = "Err"
    /\ params.val = <<"Missing value for buffer parameter: ", <<"bare_param">>>>
\* "miter_limit=abc": Invalid mitre_limit value
C19_WitnessNumber ==
    /\ Parsed
    /\ style_toks = <<Tok("miter_limit", "abc")>>
    /\ params.tag = "Err"
    /\ params.val[2] = "mitre_limit"

(***************************************************************************)
(* Claims about the file-format adapter, checked under SpecInfer.          *)
(***************************************************************************)
AllInferred == \A i \in 1..Len(objects) : objects[i].answer.tag = "Ok"
\* the schemas of the listed objects in ascending order of location
AscendingSchemas ==
    [k \in 1..Len(objects) |->
        LET i == CHOOSE i \in 1..Len(objects) :
                    Cardinality({j \in 1..Len(objects) :
                        objects[j].location <= objects[i].location}) = k
        IN objects[i].answer.val]

\* C20: for a fixed set of objects with fixed schemas, what infer_schema
\* returns is the merge of the per-object schemas in ascending order of
\* location, for every completion order of the inference tasks and every
\* order in which the objects are listed.
C20_DeterministicMerge ==
    (ipc = "returned" /\ AllInferred) =>
        inferred = try_merge(AscendingSchemas)
\* two objects listed in descending order of location whose tasks completed
\* out of list order: the merged schema has the fields in ascending order
C20_Witness ==
    /\ ipc = "returned" /\ AllInferred /\ Len(objects) = 2
    /\ objects[1].location > objects[2].location
    /\ completion_order = <<2, 1>>
    /\ objects[1].answer.val = <<Field("b", "Utf8"), Field("a", "Int64")>>
    /\ objects[2].answer.val = <<Field("a", "Int64")>>
    /\ inferred = Ok(<<Field("a", "Int64"), Field("b", "Utf8")>>)

\* C21: at every moment of infer_schema the number of spec.infer_schema
\* calls started and not yet completed is at most meta_fetch_concurrency,
\* and when infer_schema returns a schema every object of the list has been
\* inferred exactly once.
InferredOnce(i) ==
    Cardinality({k \in 1..Len(completion_order) : completion_order[k] = i}) = 1
C21_BoundedFanOut ==
    /\ Cardinality(in_progress) <= meta_fetch_concurrency
    /\ in_progress \subseteq 1..pulled
    /\ pulled <= Len(objects)
    /\ (ipc = "returned" /\ inferred.tag = "Ok") =>
          /\ pulled = Len(objects)
          /\ Len(completion_order) = Len(objects)
          /\ \A i \in 1..Len(objects) : InferredOnce(i)
\* MaxObjects objects inferred one at a time: the second call started only
\* after the first had completed and been collected
C21_Witness ==
    /\ ipc = "returned" /\ inferred.tag = "Ok"
    /\ Len(objects) = MaxObjects /\ MaxObjects > 1
    /\ meta_fetch_concurrency = 1
    /\ completion_order = [i \in 1..MaxObjects |-> i]

\* two of the listed objects answered a field of the same name with
\* different data types
SchemasConflict ==
    \E i, j \in 1..Len(objects) :
        /\ objects[i].answer.tag = "Ok" /\ objects[j].answer.tag = "Ok"
        /\ \E m \in 1..Len(objects[i].answer.val),
                n \in 1..Len(objects[j].answer.val) :
             /\ objects[i].answer.val[m].name = objects[j].answer.val[n].name
             /\ objects[i].answer.val[m].data_type
                  # objects[j].answer.val[n].data_type

\* C29: if the inference of any object fails, or the schemas cannot be
\* merged, infer_schema returns an error and no schema; a returned schema
\* is never one merged from only the objects that succeeded.
C29_NoPartialSchema ==
    /\ (ipc = "returned" /\ (~AllInferred \/ SchemasConflict)) =>
          inferred.tag = "Err"
    /\ (ipc = "returned" /\ inferred.tag = "Ok") =>
          /\ AllInferred
          /\ Len(schemas) = Len(objects)
\* the first object answered a schema and was collected, the second failed:
\* the error of the second is what infer_schema returns
C29_Witness ==
    /\ ipc = "returned" /\ Len(objects) = 2
    /\ objects[1].answer.tag = "Ok" /\ objects[2].answer.tag = "Err"
    /\ Len(schemas) = 1
    /\ inferred = objects[2].answer
\* both objects answered, with a: Int64 and a: Utf8: the merge error
C29_WitnessConflict ==
    /\ ipc = "returned" /\ AllInferred /\ SchemasConflict
    /\ Len(schemas) = 2
    /\ inferred.tag = "Err" /\ inferred.val[1] = "Fail to merge schema field "

(***************************************************************************)
(* Claims about the file source and the opener, checked under SpecScan.    *)
(***************************************************************************)
SourceFields ==
    {"batch_size", "file_schema", "file_projection", "filters",
     "projected_statistics"}
\* the field a call sets
FieldSetBy(op) ==
    IF op = "with_batch_size" THEN "batch_size"
    ELSE IF op = "with_schema" THEN "file_schema"
    ELSE IF op = "with_projection" THEN "file_projection"
    ELSE IF op = "with_statistics" THEN "projected_statistics"
    ELSE "filters"
\* the calls among the first k that set the field
SettersOf(field, k) == {j \in 1..k : FieldSetBy(calls[j].op) = field}
\* the value the most recent of them gave, unset if there is none
LastSet(field, k) ==
    IF SettersOf(field, k) = {} THEN None
    ELSE calls[CHOOSE j \in SettersOf(field, k) :
                  \A i \in SettersOf(field, k) : i <= j].arg
PushdownCalls == {j \in 1..Len(calls) : calls[j].op = "try_pushdown_filters"}
OpenerCreated == spc \in {"opener", "opening", "streaming", "ended", "failed"}

\* C22: try_pushdown_filters(F) returns exactly len(F) results, all "not
\* pushed down", and an updated source whose filters are F and whose spec,
\* batch size, file schema, projection and statistics are the receiver's;
\* the receiver is unchanged, and an opener created from the updated source
\* passes F to open_reader.
C22_PushdownReported ==
    \A j \in PushdownCalls :
        LET F == calls[j].arg[1]
            receiver == sources[j]
            updated == sources[j + 1]
        IN
        /\ updated.filters = Some(F)
        /\ updated.spec = receiver.spec
        /\ updated.metrics = receiver.metrics
        /\ \A f \in SourceFields \ {"filters"} : updated[f] = receiver[f]
        /\ receiver = calls[j].self
        /\ (\A i \in PushdownCalls : i <= j) =>
              /\ propagation.tag = "Ok"
              /\ Len(propagation.val.filters) = Len(F)
              /\ \A i \in 1..Len(F) : propagation.val.filters[i] = "No"
              /\ propagation.val.updated_node = Some(updated)
        /\ (j = Len(calls) /\ OpenerCreated) =>
              /\ opener.args.filters = Some(F)
              /\ \A k \in 1..Len(open_reader_calls) :
                    open_reader_calls[k].filters = Some(F)
\* a source with a batch size took two filters, and the opener made from the
\* updated source called open_reader with them
C22_Witness ==
    /\ Len(calls) = 2 /\ calls[1].op = "with_batch_size"
    /\ calls[2].op = "try_pushdown_filters"
    /\ calls[2].arg = Some(<<"filter2", "filter1">>)
    /\ propagation.tag = "Ok" /\ propagation.val.filters = <<"No", "No">>
    /\ sources[2].filters = None
    /\ Len(open_reader_calls) = 1
    /\ open_reader_calls[1].filters = Some(<<"filter2", "filter1">>)
    /\ open_reader_calls[1].batch_size = sources[2].batch_size

\* C23: after any sequence of with_batch_size, with_schema, with_projection,
\* with_statistics and try_pushdown_filters calls from a fresh source, each
\* field of every source of the sequence holds the value of the most recent
\* call that set it, unset if none did; each call changes only its own
\* field, and the sources made earlier are unchanged.
C23_LastCallWins ==
    spc # "idle" =>
        /\ Len(sources) = Len(calls) + 1
        /\ \A k \in 0..Len(calls) :
              /\ sources[k + 1].spec = TheSpec
              /\ sources[k + 1].metrics = SedonaFileSource_new(TheSpec).metrics
              /\ \A f \in SourceFields : sources[k + 1][f] = LastSet(f, k)
        /\ \A k \in 1..Len(calls) :
              /\ sources[k] = calls[k].self
              /\ \A f \in SourceFields \ {FieldSetBy(calls[k].op)} :
                    sources[k + 1][f] = sources[k][f]
\* a batch size, then a schema: the last source has both, the one before it
\* only the batch size
C23_Witness ==
    /\ Len(calls) = 2
    /\ calls[1].op = "with_batch_size" /\ calls[2].op = "with_schema"
    /\ sources[1].batch_size = None
    /\ sources[2].batch_size = Some(8192) /\ sources[2].file_schema = None
    /\ sources[3].batch_size = Some(8192)
    /\ sources[3].file_schema = Some("schema2")
\* the batch size set twice: the second value
C23_WitnessOverride ==
    /\ Len(calls) = 2
    /\ calls[1].op = "with_batch_size" /\ calls[2].op = "with_batch_size"
    /\ sources[2].batch_size = Some(1024)
    /\ sources[3].batch_size = Some(8192)

InternalError ==
    Err(<<"SedonaDB internal error: ",
          "Expected SimpleOpener to open a single partition">>)

\* C24: open() on an opener made for a partition other than 0 returns an
\* internal error and spec.open_reader is never called; on an opener for
\* partition 0 every open() whose future was awaited called open_reader
\* once, with the stored arguments and the object metadata of its own file,
\* and the opener's stored arguments are unchanged.
C24_SinglePartition ==
    OpenerCreated =>
        /\ opener = create_file_opener(LastSource, TheStore, BaseConfig(None),
                                       opener.partition)
        /\ opener.args.src.meta = None
        /\ opener.partition # 0 =>
              /\ open_reader_calls = <<>>
              /\ spc \in {"opener", "failed"}
              /\ Len(opens) > 0 => open_result = InternalError
        /\ opener.partition = 0 =>
              /\ open_result # InternalError
              /\ Len(open_reader_calls)
                   = Len(opens) - (IF spc = "opening" THEN 1 ELSE 0)
              /\ \A k \in 1..Len(open_reader_calls) :
                    open_reader_calls[k]
                      = [opener.args EXCEPT
                            !.src.meta = Some(opens[k].object_meta)]
\* two files opened one after the other through one opener of partition 0
C24_Witness ==
    /\ OpenerCreated /\ opener.partition = 0
    /\ opens = <<FileMeta("item1.echospec"), FileMeta("item0.echospec")>>
    /\ Len(open_reader_calls) = 2
    /\ open_reader_calls[1].src.meta
         = Some(FileMeta("item1.echospec").object_meta)
    /\ open_reader_calls[2].src.meta
         = Some(FileMeta("item0.echospec").object_meta)
\* an opener of partition 1 asked to open a file
C24_WitnessOtherPartition ==
    /\ OpenerCreated /\ opener.partition = 1
    /\ Len(opens) = 1 /\ open_result = InternalError
    /\ open_reader_calls = <<>>

\* the item of the stream for an item of the reader
StreamItemOf(batch) ==
    IF batch.tag = "Ok" THEN Ok(batch.val)
    ELSE Err(<<"DataFusionError::ArrowError", batch.val, None>>)

\* C25: the batch stream of a successful open() yields the items of the
\* reader open_reader returned, in the reader's order and each once, an
\* error of the reader as an error item at its position, and then ends; for
\* a reader of one batch of one row it yields one batch of one row.
C25_StreamIsReader ==
    spc \in {"streaming", "ended"} =>
        /\ Len(stream_out) = Len(reader_returned)
        /\ \A k \in 1..Len(stream_out) :
              stream_out[k] = StreamItemOf(reader_returned[k])
        /\ (spc = "ended" /\ reader_returned = <<Ok(RecordBatch(1, 1))>>) =>
              /\ Len(stream_out) = 1
              /\ stream_out[1].tag = "Ok" /\ stream_out[1].val[3] = 1
\* a reader of a batch and an error: the stream yielded both and ended
C25_Witness ==
    /\ spc = "ended" /\ MaxBatches > 1
    /\ reader_returned = <<Ok(RecordBatch(2, 3)), Err(ArrowError("e1"))>>
    /\ Len(stream_out) = 2
    /\ stream_out[1] = Ok(RecordBatch(2, 3))
    /\ stream_out[2].tag = "Err"
\* the reader of the test: one batch of one row
C25_WitnessOneRow ==
    /\ spc = "ended"
    /\ reader_returned = <<Ok(RecordBatch(1, 1))>>
    /\ stream_out = <<Ok(RecordBatch(1, 1))>>

(***************************************************************************)
(* Claims about the in-memory build-side stream, checked under SpecJoin.   *)
(***************************************************************************)
\* C30: an InMemoryBuildSideBatchStream built from a list of batches gives,
\* on successive polls, those batches in list order and each once; every
\* poll is Ready, never Pending; after the last batch every poll reports the
\* end of the stream; is_external() is false in every state.
C30_InMemoryStream ==
    jpc = "stream" =>
        /\ \A k \in 1..Len(polls) :
              /\ polls[k].tag = "Ready"
              /\ k <= Len(built_from) => polls[k].val = Some(Ok(built_from[k]))
              /\ k > Len(built_from) => polls[k].val = None
        /\ Len(batches) + Len(polls) >= Len(built_from)
        /\ batches = SubSeq(built_from, Len(built_from) - Len(batches) + 1,
                            Len(built_from))
        /\ is_external_ret \in {NotCalled, "false"}
\* MaxBuildBatches batches polled MaxPolls times: the batches, then the end
\* of the stream on each later poll
C30_Witness ==
    /\ jpc = "stream" /\ Len(built_from) = MaxBuildBatches
    /\ MaxBuildBatches > 1 /\ MaxPolls > MaxBuildBatches + 1
    /\ built_from[1] # built_from[2]
    /\ Len(polls) = MaxPolls
    /\ polls[MaxBuildBatches].val = Some(Ok(built_from[MaxBuildBatches]))
    /\ polls[MaxPolls - 1].val = None /\ polls[MaxPolls].val = None
    /\ is_external_ret = "false"

====
